---------------------------- MODULE Spec2Model ----------------------------
(***************************************************************************)
(* Control core of the jetson-translator appliance: debounced buttons,     *)
(* the long-press detector, the recording session and the controller's     *)
(* poll loop.                                                              *)
(*                                                                         *)
(* Time is the value of time.time(), counted in whole ticks; the clock      *)
(* advances between the program's steps.  A pin may change at any time, so  *)
(* every gpio.input(pin) may return either level.                          *)
(***************************************************************************)
EXTENDS Integers, Sequences, FiniteSets, TLC

VARIABLES
    now,        \* time.time()
    btn,        \* btn[p]: fields of the DebouncedButton on pin p
    btn_ret,    \* btn_ret[p]: what the last btn[p].poll() returned
    obs,        \* observer of the samples one button has been polled with
    lp,         \* fields of the LongPressDetector on the encoder switch
    lp_ret,     \* what the last lang_longpress.poll() returned
    lpobs,      \* observer of the long-press detector's polls
    rec,        \* fields of the AudioRecorder: _proc, _t0
    procs,      \* the capture processes launched so far, in order
    rec_pos,    \* where the thread is inside AudioRecorder.stop()
    rec_ret,    \* what the last stop() that returned has returned
    rec_log,    \* the last recorder call: what it was and how it ended
    lcd,        \* what the display shows, and its scroll text
    app,        \* fields of the AppController: the language pairs and names
    pc,         \* where the controller's thread is
    sel,        \* inside select_pair(): the first selection, once made
    pipe_call,  \* arguments of the pipeline.process() call in progress
    ctl_obs,    \* observer of the controller's loop
    cleanup_log,\* the calls run() has made on its cleanup path, in order
    pl,         \* one call of TranslationPipeline.process(): its frame
    ls          \* one call of LanguageSelector.select_pair(): its frame

btnVars == <<btn, btn_ret, obs>>
lpVars == <<lp, lp_ret, lpobs>>
recVars == <<rec, procs, rec_pos, rec_ret, rec_log>>
vars == <<now, btn, btn_ret, obs, lp, lp_ret, lpobs,
          rec, procs, rec_pos, rec_ret, rec_log, lcd,
          app, pc, sel, pipe_call, ctl_obs, cleanup_log, pl, ls>>
ctlVars == <<app, pc, sel, pipe_call, ctl_obs, cleanup_log, pl, ls>>

-----------------------------------------------------------------------------
(* Bounds of the model *)

MaxTime == 7
MaxDebounce == 2
MaxLongPress == 2
MaxProcs == 2           \* capture processes launched in one run
CtlMaxTime == 3         \* the clock's last tick in the controller's runs

(* gpio.LOW / gpio.HIGH *)
LOW == 0
HIGH == 1
Levels == {LOW, HIGH}

None == "None"
NoTime == -1        \* a time that is None / not yet set

ButtonPins == {"A", "B"}

-----------------------------------------------------------------------------
(* Environment: the clock *)

Tick(bound) ==
    /\ now < bound
    /\ now' = now + 1

-----------------------------------------------------------------------------
(* gpio_inputs.py: DebouncedButton *)

DebouncedButton(initial, t, active_high, debounce_s) ==
    [ active_high   |-> active_high,
      debounce_s    |-> debounce_s,
      raw_last      |-> initial,
      stable        |-> initial,
      raw_changed_t |-> t ]

is_pressed_level(active_high, lvl) ==
    IF active_high THEN lvl = HIGH ELSE lvl = LOW

\* a change seen inside a running window does not restart the window
TrackRawEdge_NoRestart(b, t, raw) ==
    IF raw # b.raw_last
    THEN [b EXCEPT !.raw_last = raw,
                   !.raw_changed_t = IF t - @ >= b.debounce_s THEN t ELSE @]
    ELSE b

\* a change is dated back by the window, as if it had been seen before
TrackRawEdge_Backdated(b, t, raw) ==
    IF raw # b.raw_last
    THEN [b EXCEPT !.raw_last = raw, !.raw_changed_t = t - b.debounce_s]
    ELSE b

\* "track raw edges"
TrackRawEdge(b, t, raw) ==
    IF raw # b.raw_last
    THEN [b EXCEPT !.raw_last = raw, !.raw_changed_t = t]
    ELSE b

\* accepts one tick too late
DebounceAccepts_Strict(b, t, raw) ==
    (t - b.raw_changed_t) > b.debounce_s /\ raw # b.stable

\* "if raw has been stable long enough, accept it as debounced"
DebounceAccepts(b, t, raw) ==
    (t - b.raw_changed_t) >= b.debounce_s /\ raw # b.stable

\* the event is named after the level that was left
EdgeName_Inverted(b) ==
    IF is_pressed_level(b.active_high, b.stable) THEN "released" ELSE "pressed"

EdgeName(b) ==
    IF is_pressed_level(b.active_high, b.stable) THEN "pressed" ELSE "released"

\* poll() accepting a level that differs from the stable one at once
DebouncedButton_poll_NoWindow(b, t, raw) ==
    LET b1 == TrackRawEdge(b, t, raw) IN
    IF raw # b1.stable
    THEN LET b2 == [b1 EXCEPT !.stable = raw] IN
         [b |-> b2, ret |-> EdgeName(b2)]
    ELSE [b |-> b1, ret |-> None]

\* poll() that accepts a release without returning it
DebouncedButton_poll_SilentRelease(b, t, raw) ==
    LET b1 == TrackRawEdge(b, t, raw) IN
    IF DebounceAccepts(b1, t, raw)
    THEN LET b2 == [b1 EXCEPT !.stable = raw] IN
         [b |-> b2, ret |-> IF EdgeName(b2) = "released" THEN None ELSE EdgeName(b2)]
    ELSE [b |-> b1, ret |-> None]

\* poll(): the button's fields after the call, and the value returned
DebouncedButton_poll(b, t, raw) ==
    LET b1 == TrackRawEdge(b, t, raw) IN
    IF DebounceAccepts(b1, t, raw)
    THEN LET b2 == [b1 EXCEPT !.stable = raw] IN
         [b |-> b2, ret |-> EdgeName(b2)]
    ELSE [b |-> b1, ret |-> None]

-----------------------------------------------------------------------------
(* gpio_inputs.py: LongPressDetector *)

LongPressDetector(initial, t, active_high, debounce_s, long_press_s) ==
    [ active_high   |-> active_high,
      debounce_s    |-> debounce_s,
      long_press_s  |-> long_press_s,
      raw_last      |-> initial,
      stable        |-> initial,
      raw_changed_t |-> t,
      press_start_t |-> NoTime,
      fired         |-> FALSE ]

LpTrackRawEdge(d, t, raw) ==
    IF raw # d.raw_last
    THEN [d EXCEPT !.raw_last = raw, !.raw_changed_t = t]
    ELSE d

\* the detector accepts a level one tick later than a button would
LpDebounceAccepts_Strict(d, t, raw) ==
    (t - d.raw_changed_t) > d.debounce_s /\ raw # d.stable

\* "if (now - self._raw_changed_t) >= self.debounce_s and raw != self._stable"
LpDebounceAccepts(d, t, raw) ==
    (t - d.raw_changed_t) >= d.debounce_s /\ raw # d.stable

\* a hold found without a start time is timed from the poll that finds it
LpUpdateStable_Rearms(d, t, raw) ==
    LET was == is_pressed_level(d.active_high, d.stable)
        is  == is_pressed_level(d.active_high, raw)
        d1  == IF LpDebounceAccepts(d, t, raw)
               THEN [d EXCEPT !.stable = raw,
                              !.press_start_t = IF is /\ ~was THEN t
                                                ELSE IF ~is /\ was THEN NoTime ELSE @,
                              !.fired = IF is # was THEN FALSE ELSE @]
               ELSE d
    IN IF is_pressed_level(d1.active_high, d1.stable) /\ d1.press_start_t = NoTime
       THEN [d1 EXCEPT !.press_start_t = t]
       ELSE d1

\* "update debounced stable state": the new stable level and, on a debounced
\* edge, the start of the hold
LpUpdateStable(d, t, raw) ==
    IF LpDebounceAccepts(d, t, raw)
    THEN LET was == is_pressed_level(d.active_high, d.stable)
             is  == is_pressed_level(d.active_high, raw)
         IN [d EXCEPT !.stable = raw,
                      !.press_start_t = IF is /\ ~was THEN t
                                        ELSE IF ~is /\ was THEN NoTime ELSE @,
                      !.fired = IF is # was THEN FALSE ELSE @]
    ELSE d

\* a disabled poll returns False and leaves the hold timer running
LpDisabled_KeepsTimer(d) == d

\* "if disabled, don't fire; also reset the timer"
LpDisabled(d) ==
    [d EXCEPT !.press_start_t = NoTime, !.fired = FALSE]

\* the detector forgets that it has fired
LpFire_NotLatched(d) == d

LpFire(d) == [d EXCEPT !.fired = TRUE]

\* a debounced press fires at once, whatever the time held
LpHeldLongEnough_NoThreshold(d, t) ==
    /\ d.press_start_t # NoTime
    /\ ~d.fired
    /\ is_pressed_level(d.active_high, d.stable)

\* "held long enough"
LpHeldLongEnough(d, t) ==
    /\ d.press_start_t # NoTime
    /\ ~d.fired
    /\ is_pressed_level(d.active_high, d.stable)
    /\ (t - d.press_start_t) >= d.long_press_s

\* poll(enabled): the detector's fields after the call, and the value returned
LongPressDetector_poll(d, t, raw, enabled) ==
    LET d1 == LpUpdateStable(LpTrackRawEdge(d, t, raw), t, raw) IN
    IF ~enabled THEN [d |-> LpDisabled(d1), ret |-> FALSE]
    ELSE IF LpHeldLongEnough(d1, t) THEN [d |-> LpFire(d1), ret |-> TRUE]
    ELSE [d |-> d1, ret |-> FALSE]

-----------------------------------------------------------------------------
(* lcd_display.py: LCDDisplay, as far as the controller drives it *)

LCDDisplay == [line1 |-> "", line2 |-> "", scroll_text |-> ""]

lcd_write(l, line1, line2) == [l EXCEPT !.line1 = line1, !.line2 = line2]

\* set_scroll_text(text): "text or ''"
lcd_set_scroll_text(l, text) ==
    [l EXCEPT !.scroll_text = IF text = None THEN "" ELSE text]

lcd_clear_scroll(l) == [l EXCEPT !.scroll_text = ""]

-----------------------------------------------------------------------------
(* audio_recorder.py: AudioRecorder and the arecord processes it launches *)

NoProc == 0         \* _proc is None

AudioRecorder == [proc |-> NoProc, t0 |-> NoTime]

is_recording(r) == r.proc # NoProc

\* a process as subprocess.Popen leaves it
Popen ==
    [ state  |-> "running",     \* "running" or "exited"
      sigint |-> 0,             \* send_signal(SIGINT) calls made on it
      killed |-> FALSE,         \* kill() was called on it
      reaped |-> FALSE ]        \* a wait() on it has returned

Live(ps) == {i \in 1..Len(ps) : ~ps[i].reaped}

\* start() without the check of _proc
AudioRecorder_start_NoGuard(r, ps, t, launch_ok) ==
    IF launch_ok
    THEN [rec |-> [proc |-> Len(ps) + 1, t0 |-> t],
          procs |-> Append(ps, Popen), raised |-> FALSE]
    ELSE [rec |-> [r EXCEPT !.t0 = t], procs |-> ps, raised |-> TRUE]

\* start(): launch_ok is whether subprocess.Popen succeeds; when it raises,
\* _t0 is already set and _proc is not
AudioRecorder_start(r, ps, t, launch_ok) ==
    IF r.proc # NoProc
    THEN [rec |-> r, procs |-> ps, raised |-> FALSE]
    ELSE IF launch_ok
    THEN [rec |-> [proc |-> Len(ps) + 1, t0 |-> t],
          procs |-> Append(ps, Popen), raised |-> FALSE]
    ELSE [rec |-> [r EXCEPT !.t0 = t], procs |-> ps, raised |-> TRUE]

\* stop() on an idle recorder signals the process launched last
StopIdle_SignalsStale(r, ps) ==
    [rec |-> r,
     procs |-> IF ps = <<>> THEN ps
               ELSE [ps EXCEPT ![Len(ps)].sigint = @ + 1],
     ret |-> 0]

\* stop(), "if self._proc is None: return 0.0"
StopIdle(r, ps) == [rec |-> r, procs |-> ps, ret |-> 0]

\* stop(), send_signal(SIGINT)
StopSignal(ps, pid) == [ps EXCEPT ![pid].sigint = @ + 1]

\* "dur = (time.time() - self._t0) if self._t0 else 0.0", then both fields are
\* cleared; _t0 is a time.time() value, false only when None or 0.0
StopFinish(r, t) ==
    [rec |-> [proc |-> NoProc, t0 |-> NoTime],
     ret |-> IF r.t0 # NoTime /\ r.t0 # 0 THEN t - r.t0 ELSE 0]

\* the timeout leaves stop() as an exception
StopTimedOut_Raises(r, ps, t) ==
    [rec |-> r, procs |-> ps, ret |-> NoTime, raised |-> TRUE]

\* stop(), "except subprocess.TimeoutExpired": kill(), then wait()
StopTimedOut(r, ps, t) ==
    LET f == StopFinish(r, t) IN
    [rec |-> f.rec,
     procs |-> [ps EXCEPT ![r.proc].killed = TRUE,
                          ![r.proc].state = "exited",
                          ![r.proc].reaped = TRUE],
     ret |-> f.ret, raised |-> FALSE]

\* stop() clears the session without a completed wait on the process
StopWaited_NotReaped(r, ps, t) ==
    LET f == StopFinish(r, t) IN
    [rec |-> f.rec, procs |-> ps, ret |-> f.ret, raised |-> FALSE]

\* stop(), wait(timeout=timeout_s) returns
StopWaited(r, ps, t) ==
    LET f == StopFinish(r, t) IN
    [rec |-> f.rec,
     procs |-> [ps EXCEPT ![r.proc].reaped = TRUE],
     ret |-> f.ret, raised |-> FALSE]

\* stop()'s timeout_s, as a number of clock ticks: the time wait() lets
\* pass before TimeoutExpired
timeout_s == 1

-----------------------------------------------------------------------------
(* One DebouncedButton polled at arbitrary times with arbitrary levels *)

\* What an observer of the polls can tell without reading the button's
\* fields: the samples, when they changed, and the events reported.
ObsInit(initial) ==
    [ polls      |-> 0,         \* 0 until the first poll, then 1
      t          |-> NoTime,    \* time of the last poll
      gap        |-> 0,         \* time from the poll before it to the last poll
      raw        |-> initial,   \* level sampled last (at construction first)
      change_t   |-> NoTime,    \* time of the poll that last saw raw change
      changed    |-> FALSE,     \* the last poll saw raw change
      accepted   |-> initial,   \* accepted level before the last poll
      bounces    |-> 0,         \* changes seen < debounce_s after another (capped)
      reports    |-> 0,         \* events reported since raw last changed
      last_ev    |-> None,      \* last event reported before the last poll
      ev         |-> None ]     \* what the last poll returned

ObsPoll(o, t, raw, ev, debounce_s) ==
    LET chg == raw # o.raw
        acc == IF o.ev = None THEN o.accepted
               ELSE IF o.accepted = LOW THEN HIGH ELSE LOW
    IN [ polls    |-> 1,
         t        |-> t,
         gap      |-> IF o.t = NoTime THEN 0 ELSE t - o.t,
         raw      |-> raw,
         change_t |-> IF chg THEN t ELSE o.change_t,
         changed  |-> chg,
         accepted |-> acc,
         bounces  |-> IF ~chg THEN o.bounces
                      ELSE IF o.change_t # NoTime /\ t - o.change_t < debounce_s
                           THEN (IF o.bounces < 2 THEN o.bounces + 1 ELSE 2)
                           ELSE 0,
         reports  |-> (IF chg THEN 0 ELSE o.reports) + (IF ev = None THEN 0 ELSE 1),
         last_ev  |-> IF o.ev = None THEN o.last_ev ELSE o.ev,
         ev       |-> ev ]

\* What an observer of the detector's polls can tell: how often it fired in
\* the present hold, and since when the detector has been enabled with the
\* debounced level pressed without a break.
LpObsInit ==
    [ polls   |-> 0,        \* 0 until the first poll, then 1
      t       |-> NoTime,   \* time of the last poll
      enabled |-> TRUE,     \* the last poll's argument
      pressed |-> FALSE,    \* debounced level was pressed after the last poll
      fires   |-> 0,        \* True results since the last debounced press edge
      cut     |-> FALSE,    \* a disabled poll has fallen into the present hold
      edge_off |-> FALSE,   \* a disabled poll took the level to pressed for it
      hold_t  |-> NoTime,   \* start of the unbroken enabled hold, if in one
      press_t |-> NoTime,   \* the poll that last took the level to pressed
      release_t |-> NoTime, \* the poll that took it back to released since
      short   |-> FALSE ]   \* a hold has ended before long_press_s was over

LpObsPoll(o, t, enabled, before, after, ret) ==
    LET was == is_pressed_level(before.active_high, before.stable)
        is  == is_pressed_level(after.active_high, after.stable)
    IN [ polls   |-> 1,
         t       |-> t,
         enabled |-> enabled,
         pressed |-> is,
         fires   |-> (IF is /\ ~was THEN 0 ELSE o.fires) + (IF ret THEN 1 ELSE 0),
         cut     |-> is /\ (~enabled \/ (was /\ o.cut)),
         edge_off |-> is /\ (IF was THEN o.edge_off ELSE ~enabled),
         hold_t  |-> IF ~enabled \/ ~is THEN NoTime
                     ELSE IF o.hold_t = NoTime \/ ~was THEN t ELSE o.hold_t,
         press_t |-> IF is /\ ~was THEN t ELSE o.press_t,
         release_t |-> IF is /\ ~was THEN NoTime
                       ELSE IF was /\ ~is THEN t ELSE o.release_t,
         short   |-> \/ o.short
                     \/ /\ was /\ ~is /\ o.press_t # NoTime
                        /\ t - o.press_t < after.long_press_s ]

\* app_controller.py: AppController.__init__, "runtime state"
AppController ==
    [lang_a_to_b |-> None, lang_b_to_a |-> None, name_1 |-> None, name_2 |-> None]

\* language_selector.py: no call of select_pair() in progress
LanguageSelector ==
    [ at            |-> "idle", \* "loop": inside select_one()'s loop
      round         |-> 0,      \* 1 or 2: the select_one() call of select_pair()
      options       |-> << >>,
      initial_index |-> 0,
      index         |-> 0,
      name_code     |-> None,   \* the locals name, code
      last_clk      |-> LOW,
      last_sw       |-> LOW,
      clk |-> LOW, dt |-> LOW, sw |-> LOW,  \* the last iteration's samples
      sw2           |-> LOW,    \* SW one debounce sleep after that sample
      sw0           |-> HIGH,   \* SW as this round's first read found it
      settled       |-> FALSE,  \* the settle loop ended on a released read
      seen_released |-> FALSE,  \* this round has read SW released, before
                                \* the press that ended it if one has
      last_read     |-> HIGH,   \* SW as read last
      releases      |-> 0,      \* reads that found SW released after a
                                \* read that found it pressed (at most 2)
      flip          |-> FALSE,  \* changes with every iteration of the loop
      rotated       |-> FALSE,  \* a CLK change was seen in this round
      turned        |-> FALSE,  \* a CLK change was seen in an earlier round
      first         |-> None,   \* what the first select_one() returned
      ret           |-> None ]  \* what select_pair() returned

\* translation_pipeline.py: no call of process() in progress
TranslationPipeline ==
    [ at       |-> "idle",  \* position inside process()
      wav_path |-> None, src_lang |-> None, tgt_lang |-> None,
      text     |-> None,    \* transcribe_fn's result
      out      |-> None,    \* translate_fn's result
      wav      |-> None,    \* tts.synthesize's result
      ret      |-> None,    \* the value process() returned
      calls    |-> << >> ]  \* collaborator calls made, in order

\* no pipeline.process() call is in progress
NoCall == [wav |-> None, src |-> None, tgt |-> None]

CtlObsInit ==
    [ lp_polls     |-> 0,       \* 0 before run() polls the detector, then 1
      lp_recording |-> FALSE,   \* a recording was in progress at its last poll
      lp_enabled   |-> FALSE,   \* the "enabled" argument of that poll
      interrupted  |-> FALSE,   \* KeyboardInterrupt has ended the loop
      pipes        |-> 0,       \* pipeline.process() calls made so far
      starter      |-> "none",  \* "a" or "b": the button whose press began
                                \* the recording in progress, being stopped
                                \* or in the pipeline
      lp_hold      |-> "none" ] \* the hold the detector is timing: "none",
                                \* "held" since a poll of run() took the level
                                \* to pressed, "recorded" when a recording
                                \* has begun since that poll

CtlIdleInit ==
    /\ app = AppController
    /\ pc = "constructed"
    /\ sel = None
    /\ pipe_call = NoCall
    /\ ctl_obs = CtlObsInit
    /\ cleanup_log = << >>
    /\ pl = TranslationPipeline
    /\ ls = LanguageSelector

\* the recorder and the display as their constructors leave them
RecLogInit ==
    [ op     |-> None,      \* "start" or "stop"
      flip   |-> FALSE,     \* changes with every call
      was    |-> FALSE,     \* is_recording when the call was made
      pid    |-> NoProc,    \* the process a stop() was stopping
      path   |-> None,      \* how stop() ended: "idle", "graceful", "forced"
      raised |-> FALSE ]    \* the call ended in an exception

RecIdleInit ==
    /\ rec = AudioRecorder
    /\ procs = <<>>
    /\ rec_pos = [at |-> None, since |-> NoTime]
    /\ rec_ret = NoTime
    /\ rec_log = RecLogInit
    /\ lcd = LCDDisplay

BtnInit ==
    /\ now = 0
    /\ \E initial \in Levels, ah \in BOOLEAN, d \in 0..MaxDebounce :
          /\ btn = [p \in ButtonPins |-> DebouncedButton(initial, now, ah, d)]
          /\ obs = ObsInit(initial)
    /\ btn_ret = [p \in ButtonPins |-> None]
    /\ lp = LongPressDetector(HIGH, now, FALSE, 0, 0)
    /\ lp_ret = FALSE
    /\ lpobs = LpObsInit
    /\ RecIdleInit
    /\ CtlIdleInit

BtnTick ==
    /\ Tick(MaxTime)
    /\ UNCHANGED <<btnVars, lpVars, recVars, lcd, ctlVars>>

BtnPoll ==
    \E raw \in Levels :
        LET r == DebouncedButton_poll(btn["A"], now, raw) IN
        /\ btn' = [btn EXCEPT !["A"] = r.b]
        /\ btn_ret' = [btn_ret EXCEPT !["A"] = r.ret]
        /\ obs' = ObsPoll(obs, now, raw, r.ret, btn["A"].debounce_s)
        /\ UNCHANGED <<now, lpVars, recVars, lcd, ctlVars>>

BtnNext == BtnTick \/ BtnPoll

SpecBtn == BtnInit /\ [][BtnNext]_vars

-----------------------------------------------------------------------------
(* Properties of DebouncedButton.poll(), stated on what the observer saw *)

ObsQuietFor == obs.t - obs.change_t      \* time since raw was last seen to change

\* C1: a poll reports a transition exactly when the level it read differs
\* from the accepted level and the sampled level was last seen to change at
\* least debounce_s ago; any other poll returns None and leaves the stable
\* level as it was.
C1_ReportIffQuietAndDifferent ==
    obs.polls = 1 =>
        /\ btn_ret["A"] \in {"pressed", "released", None}
        /\ (btn_ret["A"] # None) <=>
               /\ obs.raw # obs.accepted
               /\ obs.change_t # NoTime
               /\ ObsQuietFor >= btn["A"].debounce_s
        /\ btn_ret["A"] = None => btn["A"].stable = obs.accepted
        /\ btn_ret["A"] # None => btn["A"].stable = obs.raw

C1_Witness ==
    /\ obs.polls = 1
    /\ btn_ret["A"] = "pressed"
    /\ btn["A"].debounce_s = 2
    /\ ObsQuietFor = 2

\* C2: 'pressed' is returned exactly at the polls that move the stable level
\* from the inactive to the active level and 'released' exactly at those
\* that move it back, so two events in a row are never the same; the active
\* level is HIGH with active_high and LOW without.
C2_EventsAlternateWithPolarity ==
    LET b      == btn["A"]
        active == IF b.active_high THEN HIGH ELSE LOW
        moved  == b.stable # obs.accepted
    IN obs.polls = 1 =>
        /\ (obs.ev = "pressed")  <=> (moved /\ b.stable = active)
        /\ (obs.ev = "released") <=> (moved /\ b.stable # active)
        /\ obs.ev # None => obs.ev # obs.last_ev

C2_Witness ==
    /\ obs.ev = "released"
    /\ obs.last_ev = "pressed"
    /\ ~btn["A"].active_high
    /\ btn["A"].stable = HIGH

\* C3: after the sampled level has bounced (changes seen less than
\* debounce_s apart), no poll inside the window reports anything, and once
\* the level has settled away from the stable level exactly one transition
\* is reported, to the settled level.
C3_BouncesReportOnce ==
    obs.bounces >= 1 =>
        /\ ObsQuietFor < btn["A"].debounce_s => (obs.ev = None /\ obs.reports = 0)
        /\ obs.reports <= 1
        /\ (ObsQuietFor >= btn["A"].debounce_s /\ obs.raw # obs.accepted)
               => (obs.ev # None /\ obs.reports = 1)
        /\ obs.reports = 1 => btn["A"].stable = obs.raw

C3_Witness ==
    /\ obs.bounces = 2
    /\ obs.ev = "pressed"
    /\ obs.reports = 1
    /\ obs.raw # obs.accepted

\* the level the events reported so far leave accepted
C20_AcceptedNow ==
    IF obs.ev = None THEN obs.accepted
    ELSE IF obs.accepted = LOW THEN HIGH ELSE LOW

\* the level that was accepted when the sample was last seen to change
C20_AcceptedAtChange ==
    IF obs.reports % 2 = 0 THEN C20_AcceptedNow
    ELSE IF C20_AcceptedNow = LOW THEN HIGH ELSE LOW

\* a poll samples the level that was stable when the sample was seen to
\* leave it, less than debounce_s after that was seen
C20_SampleIsBackInTime ==
    /\ obs' # obs
    /\ obs.change_t # NoTime
    /\ obs.raw # C20_AcceptedAtChange
    /\ obs'.raw = C20_AcceptedAtChange
    /\ obs'.t - obs.change_t < btn["A"].debounce_s

\* C20: when the sampled level has left the stable level and a poll finds it
\* back less than debounce_s after the departure was seen, no poll from the
\* departure to the return has reported a transition, and the stable level
\* is what it was.
C20_Step ==
    C20_SampleIsBackInTime
        => /\ obs.reports = 0
           /\ obs'.ev = None
           /\ btn_ret'["A"] = None
           /\ btn["A"].stable = C20_AcceptedAtChange
           /\ btn'["A"].stable = C20_AcceptedAtChange

C20_MisreadIsIgnored == [][C20_Step]_vars

\* the last poll saw the sample change back to the stable level less than
\* debounce_s after it was seen to leave it, and returned None
C20_Witness ==
    /\ obs.changed
    /\ obs.bounces >= 1
    /\ obs.raw = btn["A"].stable
    /\ obs.raw = obs.accepted
    /\ obs.ev = None
    /\ obs.last_ev = "pressed"
    /\ btn["A"].debounce_s = 2
    /\ obs.t >= 4

-----------------------------------------------------------------------------
(* One LongPressDetector polled at arbitrary times, enabled or disabled *)

LpInit ==
    /\ now = 0
    /\ btn = [p \in ButtonPins |-> DebouncedButton(LOW, now, TRUE, 0)]
    /\ btn_ret = [p \in ButtonPins |-> None]
    /\ obs = ObsInit(LOW)
    /\ \E initial \in Levels, ah \in BOOLEAN,
          d \in 0..MaxDebounce, l \in 0..MaxLongPress :
          lp = LongPressDetector(initial, now, ah, d, l)
    /\ lp_ret = FALSE
    /\ lpobs = LpObsInit
    /\ RecIdleInit
    /\ CtlIdleInit

LpTick ==
    /\ Tick(MaxTime)
    /\ UNCHANGED <<btnVars, lpVars, recVars, lcd, ctlVars>>

LpPoll ==
    \E raw \in Levels, enabled \in BOOLEAN :
        LET r == LongPressDetector_poll(lp, now, raw, enabled) IN
        /\ lp' = r.d
        /\ lp_ret' = r.ret
        /\ lpobs' = LpObsPoll(lpobs, now, enabled, lp, r.d, r.ret)
        /\ UNCHANGED <<now, btnVars, recVars, lcd, ctlVars>>

LpNext == LpTick \/ LpPoll

SpecLP == LpInit /\ [][LpNext]_vars

\* C8: poll() returns True at most once per debounced hold: once it has,
\* it returns False until the debounced level has gone to released and to
\* pressed again; and it returns True only while the level is pressed.
C8_FiresOncePerHold ==
    /\ lp_ret \in BOOLEAN
    /\ lpobs.fires <= 1
    /\ lp_ret => (lpobs.pressed /\ lpobs.fires = 1)

C8_Witness ==
    /\ lp_ret = FALSE
    /\ lpobs.fires = 1
    /\ lpobs.pressed
    /\ lpobs.enabled
    /\ lpobs.hold_t # NoTime
    /\ lpobs.t - lpobs.hold_t > lp.long_press_s
    /\ lp.long_press_s > 0

\* C9: a poll with enabled=False discards the hold time: poll() returns True
\* only when the detector has been polled enabled, with the debounced level
\* pressed, without a break for at least long_press_s, so never as soon as
\* it is enabled again.
C9_DisableDiscardsHoldTime ==
    lp_ret => /\ lpobs.enabled
              /\ lpobs.hold_t # NoTime
              /\ lpobs.t - lpobs.hold_t >= lp.long_press_s

C9_Witness ==
    /\ lpobs.polls = 1
    /\ lpobs.enabled
    /\ lpobs.pressed
    /\ lp_ret = FALSE
    /\ lpobs.fires = 0
    /\ lp.press_start_t = NoTime
    /\ lp.long_press_s > 0
    /\ lpobs.t - lpobs.hold_t >= lp.long_press_s
    /\ lpobs.cut

\* C21: poll() returns True only at a poll where the detector is enabled,
\* the debounced level is pressed and at least long_press_s has passed since
\* the poll that took the debounced level to pressed; a hold whose debounced
\* level leaves pressed before long_press_s has passed produced no True.
C21_FiresOnlyAfterThreshold ==
    /\ lp_ret => /\ lpobs.enabled
                 /\ lpobs.pressed
                 /\ lpobs.press_t # NoTime
                 /\ lpobs.t - lpobs.press_t >= lp.long_press_s
    /\ (lpobs.press_t # NoTime /\ lpobs.release_t # NoTime
            /\ lpobs.release_t - lpobs.press_t < lp.long_press_s)
        => lpobs.fires = 0

C21_Witness ==
    /\ lp_ret
    /\ lpobs.short
    /\ lp.long_press_s = MaxLongPress
    /\ lpobs.t - lpobs.press_t = lp.long_press_s

-----------------------------------------------------------------------------
(* The recorder's operations, and the controller's start_record(), called   *)
(* in any order by one thread, beside the capture processes                 *)

RecLog(op, was, pid, path, raised) ==
    [op |-> op, flip |-> ~rec_log.flip, was |-> was, pid |-> pid,
     path |-> path, raised |-> raised]

RecInit ==
    /\ now = 1
    /\ btn = [p \in ButtonPins |-> DebouncedButton(LOW, now, TRUE, 0)]
    /\ btn_ret = [p \in ButtonPins |-> None]
    /\ obs = ObsInit(LOW)
    /\ lp = LongPressDetector(HIGH, now, FALSE, 0, 0)
    /\ lp_ret = FALSE
    /\ lpobs = LpObsInit
    /\ RecIdleInit
    /\ CtlIdleInit

RecTick ==
    /\ Tick(MaxTime)
    /\ UNCHANGED <<btnVars, lpVars, recVars, lcd, ctlVars>>

\* a capture process ends, of itself or because it was signalled
ProcExits(i) ==
    /\ procs[i].state = "running"
    /\ procs' = [procs EXCEPT ![i].state = "exited"]

RecProcExits ==
    /\ \E i \in 1..Len(procs) : ProcExits(i)
    /\ UNCHANGED <<now, btnVars, lpVars, rec, rec_pos, rec_ret, rec_log, lcd, ctlVars>>

\* AudioRecorder.start()
RecStart ==
    /\ rec_pos.at = None
    /\ \E launch_ok \in BOOLEAN :
          LET r == AudioRecorder_start(rec, procs, now, launch_ok) IN
          /\ Len(r.procs) <= MaxProcs
          /\ rec' = r.rec
          /\ procs' = r.procs
          /\ rec_log' = RecLog("start", is_recording(rec), NoProc, None, r.raised)
    /\ UNCHANGED <<now, btnVars, lpVars, rec_pos, rec_ret, lcd, ctlVars>>

\* AppController.start_record(): the recorder, the processes and the display
\* after the call, and whether recorder.start() raised
start_record(r, ps, l, t, launch_ok) ==
    IF is_recording(r)
    THEN [rec |-> r, procs |-> ps, lcd |-> l, raised |-> FALSE]
    ELSE LET s == AudioRecorder_start(r, ps, t, launch_ok) IN
         [rec |-> s.rec, procs |-> s.procs, raised |-> s.raised,
          lcd |-> IF s.raised THEN l
                  ELSE lcd_write(lcd_clear_scroll(l), "Recording...", "")]

RecStartRecord ==
    /\ rec_pos.at = None
    /\ \E launch_ok \in BOOLEAN :
          LET r == start_record(rec, procs, lcd, now, launch_ok) IN
          /\ Len(r.procs) <= MaxProcs
          /\ rec' = r.rec
          /\ procs' = r.procs
          /\ lcd' = r.lcd
          /\ rec_log' = RecLog("start_record", is_recording(rec), NoProc, None, r.raised)
    /\ UNCHANGED <<now, btnVars, lpVars, rec_pos, rec_ret, ctlVars>>

\* AudioRecorder.stop(), up to its return on an idle recorder or to the
\* wait for the signalled process
stop_call ==
    IF ~is_recording(rec)
    THEN LET r == StopIdle(rec, procs) IN
         /\ rec' = r.rec
         /\ procs' = r.procs
         /\ rec_ret' = r.ret
         /\ rec_log' = RecLog("stop", FALSE, NoProc, "idle", FALSE)
         /\ UNCHANGED rec_pos
    ELSE /\ procs' = StopSignal(procs, rec.proc)
         /\ rec_pos' = [at |-> "wait", since |-> now]
         /\ rec_log' = RecLog("stop", TRUE, rec.proc, None, FALSE)
         /\ UNCHANGED <<rec, rec_ret>>

\* wait(timeout=timeout_s) returns: the process has exited
stop_waited ==
    /\ rec_pos.at = "wait"
    /\ procs[rec.proc].state = "exited"
    /\ LET r == StopWaited(rec, procs, now) IN
       /\ rec' = r.rec
       /\ procs' = r.procs
       /\ rec_ret' = r.ret
       /\ rec_log' = [rec_log EXCEPT !.path = "graceful", !.raised = r.raised]
    /\ rec_pos' = [at |-> None, since |-> NoTime]

\* wait(timeout=timeout_s) raises TimeoutExpired
stop_timed_out ==
    /\ rec_pos.at = "wait"
    /\ now - rec_pos.since >= timeout_s
    /\ LET r == StopTimedOut(rec, procs, now) IN
       /\ rec' = r.rec
       /\ procs' = r.procs
       /\ rec_ret' = IF r.raised THEN rec_ret ELSE r.ret
       /\ rec_log' = [rec_log EXCEPT !.path = "forced", !.raised = r.raised]
    /\ rec_pos' = [at |-> None, since |-> NoTime]

RecStop ==
    /\ rec_pos.at = None
    /\ stop_call
    /\ UNCHANGED <<now, btnVars, lpVars, lcd, ctlVars>>

RecStopWaited ==
    /\ stop_waited
    /\ UNCHANGED <<now, btnVars, lpVars, lcd, ctlVars>>

RecStopTimedOut ==
    /\ stop_timed_out
    /\ UNCHANGED <<now, btnVars, lpVars, lcd, ctlVars>>

RecNext ==
    \/ RecTick
    \/ RecProcExits
    \/ RecStart
    \/ RecStartRecord
    \/ RecStop
    \/ RecStopWaited
    \/ RecStopTimedOut

SpecRec == RecInit /\ [][RecNext]_vars

\* C4: a stop() called while Recording has, when it has returned, left the
\* session Idle on either path and raised nothing; on the forced path the
\* process was killed and then waited for, and a duration is returned.
C4_StopAlwaysEndsIdle ==
    (rec_log.op = "stop" /\ rec_log.was /\ rec_pos.at = None) =>
        /\ ~rec_log.raised
        /\ ~is_recording(rec)
        /\ rec.t0 = NoTime
        /\ rec_ret >= 0
        /\ rec_log.path \in {"graceful", "forced"}
        /\ procs[rec_log.pid].sigint = 1
        /\ procs[rec_log.pid].state = "exited"
        /\ procs[rec_log.pid].reaped
        /\ rec_log.path = "graceful" => ~procs[rec_log.pid].killed
        /\ rec_log.path = "forced" => procs[rec_log.pid].killed

C4_Witness ==
    /\ rec_log.op = "stop"
    /\ rec_log.was
    /\ rec_pos.at = None
    /\ rec_log.path = "forced"
    /\ ~is_recording(rec)
    /\ rec_ret >= timeout_s

\* C5: a stop() on an Idle session returns 0, signals no process and leaves
\* the recorder as it was, however often it is repeated.
C5_StopOnIdleIsNoOp ==
    [][(rec_log' # rec_log /\ rec_log'.op = "stop" /\ ~is_recording(rec))
          => /\ rec' = rec
             /\ procs' = procs
             /\ rec_pos' = rec_pos
             /\ rec_ret' = 0
             /\ rec_log'.path = "idle"]_vars

C5_Witness ==
    /\ rec_log.op = "stop"
    /\ rec_log.path = "idle"
    /\ ~is_recording(rec)
    /\ rec_ret = 0
    /\ Len(procs) >= 1

\* C6: at most one capture process is live at any time, and it is the
\* session's; a start(), or the controller's start_record(), made while
\* Recording launches nothing and keeps the process and the start time.
C6_LiveAtMostOne ==
    /\ Cardinality(Live(procs)) <= 1
    /\ Live(procs) \subseteq {rec.proc}

C6_StartWhileRecordingIsNoOp ==
    (rec_log' # rec_log /\ rec_log'.op \in {"start", "start_record"}
        /\ is_recording(rec))
    => (rec' = rec /\ procs' = procs /\ ~rec_log'.raised)

C6_OneSessionOneProcess ==
    [](C6_LiveAtMostOne) /\ [][C6_StartWhileRecordingIsNoOp]_vars

C6_Witness ==
    /\ rec_log.op = "start_record"
    /\ rec_log.was
    /\ is_recording(rec)
    /\ Len(procs) = 2
    /\ Live(procs) = {2}

-----------------------------------------------------------------------------
(* app_controller.py: AppController, wired as build_app.py and main.py do   *)

\* main.py, config: the first two LANG_CHOICES; DEBOUNCE_S and
\* ENC_LONG_PRESS_S as numbers of clock ticks (one tick each, so that a
\* debounced edge and a long press fit into the controller's runs)
LANG_CHOICES == << <<"English", "eng_Latn">>, <<"Italian", "ita_Latn">> >>
DEBOUNCE_S == 1
ENC_LONG_PRESS_S == 1

\* AudioRecorder.wav_path
wav_path == "audio_files/speech.wav"

\* positions inside the try block of run()
LoopPcs == {"poll_a", "stop_a", "pipe_a", "poll_b", "stop_b", "pipe_b",
            "poll_lp", "reselect_1", "reselect_2", "tick"}

ButtonOf(x) == IF x = "a" THEN "A" ELSE "B"

\* button A's handling is followed by the detector's poll
AfterButton_SkipsB(x) ==
    CASE x = "a" -> "poll_lp"
      [] x = "b" -> "poll_lp"
      [] x = "f" -> "done"

\* run() continues here when the handling of a button's event is complete
AfterButton(x) ==
    CASE x = "a" -> "poll_b"
      [] x = "b" -> "poll_lp"
      [] x = "f" -> "done"

\* the finally block stops with button B's pair
ReleasePair_FinallyB(a, x) == IF x = "a" THEN a.lang_a_to_b ELSE a.lang_b_to_a

\* both buttons stop with button A's pair
ReleasePair_AlwaysA(a, x) == a.lang_a_to_b

\* the pipeline gets the pair of the button that began the recording
ReleasePair_OfStarter(a, x) ==
    IF ctl_obs.starter = "b" THEN a.lang_b_to_a ELSE a.lang_a_to_b

\* the pair run() passes to stop_record(): *self.lang_a_to_b for button A
\* and in the finally block, *self.lang_b_to_a for button B
ReleasePair(a, x) == IF x = "b" THEN a.lang_b_to_a ELSE a.lang_a_to_b

\* the detector is polled enabled whatever the recorder does
LpEnabledArg_Always(r) == TRUE

\* run(): "enabled=(not self.recorder.is_recording)"
LpEnabledArg(r) == ~is_recording(r)

Init ==
    /\ now = 1
    /\ btn \in [ButtonPins -> {DebouncedButton(initial, now, TRUE, DEBOUNCE_S) :
                                   initial \in Levels}]
    /\ btn_ret = [p \in ButtonPins |-> None]
    /\ obs = ObsInit(LOW)
    /\ \E initial \in Levels :
          lp = LongPressDetector(initial, now, FALSE, DEBOUNCE_S, ENC_LONG_PRESS_S)
    /\ lp_ret = FALSE
    /\ lpobs = LpObsInit
    /\ RecIdleInit
    /\ CtlIdleInit

\* the program has ended: run() has returned or an exception has left it
Ended == pc \in {"done", "raised"}

\* what run()'s poll of the detector does to the observed hold: the hold
\* is over when the debounced level is released or the detector has dropped
\* its start time
LpHoldPolled(h, before, after) ==
    LET was == is_pressed_level(before.active_high, before.stable)
        is  == is_pressed_level(after.active_high, after.stable)
    IN IF ~is \/ after.press_start_t = NoTime THEN "none"
       ELSE IF ~was THEN "held" ELSE h

\* what a start_record() that begins a recording does to it
LpHoldRecorded(h, began) == IF began /\ h = "held" THEN "recorded" ELSE h

CtlTick ==
    /\ ~Ended
    /\ Tick(CtlMaxTime)
    /\ UNCHANGED <<btnVars, lpVars, recVars, lcd, ctlVars>>

CtlProcExits ==
    /\ ~Ended
    /\ \E i \in 1..Len(procs) : ProcExits(i)
    /\ UNCHANGED <<now, btnVars, lpVars, rec, rec_pos, rec_ret, rec_log,
                   lcd, ctlVars>>

\* select_one() up to its loop: the scroll text is cleared and the prompt
\* shown with the option at initial_index=0
select_one_enter(l, prompt_line1) ==
    lcd_write(lcd_clear_scroll(l), prompt_line1, LANG_CHOICES[1][1])

\* select_languages_startup() enters select_pair() and the first select_one()
SelectLanguagesStartup ==
    /\ pc = "constructed"
    /\ lcd' = select_one_enter(lcd, "Select Lang 1:")
    /\ pc' = "startup_1"
    /\ UNCHANGED <<pl, ls, now, btnVars, lpVars, recVars, app, sel,
                   pipe_call, ctl_obs, cleanup_log>>

\* the controller's forward pair is written as soon as the first round ends
SelectFirst_AssignsEarly ==
    /\ pc \in {"startup_1", "reselect_1"}
    /\ \E i \in 1..Len(LANG_CHOICES) :
          /\ sel' = LANG_CHOICES[i]
          /\ app' = [app EXCEPT !.lang_a_to_b = <<LANG_CHOICES[i][2], None>>,
                                !.name_1 = LANG_CHOICES[i][1]]
    /\ lcd' = select_one_enter(lcd, "Select Lang 2:")
    /\ pc' = IF pc = "startup_1" THEN "startup_2" ELSE "reselect_2"
    /\ UNCHANGED <<pl, ls, now, btnVars, lpVars, recVars, pipe_call, ctl_obs, cleanup_log>>

\* select_pair(): the first select_one() returns an option and the second
\* select_one() is entered
SelectFirst ==
    /\ pc \in {"startup_1", "reselect_1"}
    /\ \E i \in 1..Len(LANG_CHOICES) : sel' = LANG_CHOICES[i]
    /\ lcd' = select_one_enter(lcd, "Select Lang 2:")
    /\ pc' = IF pc = "startup_1" THEN "startup_2" ELSE "reselect_2"
    /\ UNCHANGED <<pl, ls, now, btnVars, lpVars, recVars, app, pipe_call, ctl_obs, cleanup_log>>

\* select_pair(): the second select_one() returns with its option on the
\* display, select_pair() returns and the caller assigns the four fields at
\* once; reselect_languages() then shows "Ready"
SelectSecond ==
    /\ pc \in {"startup_2", "reselect_2"}
    /\ \E i \in 1..Len(LANG_CHOICES) :
          LET second == LANG_CHOICES[i] IN
          /\ app' = [lang_a_to_b |-> <<sel[2], second[2]>>,
                     lang_b_to_a |-> <<second[2], sel[2]>>,
                     name_1 |-> sel[1], name_2 |-> second[1]]
          /\ IF pc = "startup_2"
             THEN /\ pc' = "selected"
                  /\ lcd' = lcd_write(lcd, "Select Lang 2:", second[1])
             ELSE /\ pc' = "tick"
                  /\ lcd' = lcd_write(lcd, "Ready", "Hold button")
    /\ sel' = None
    /\ UNCHANGED <<pl, ls, now, btnVars, lpVars, recVars, pipe_call, ctl_obs, cleanup_log>>

\* run() without the check of the language pairs
Run_NoCheck ==
    /\ pc \in {"constructed", "selected"}
    /\ pc' = "poll_a"
    /\ lcd' = lcd_write(lcd, "Ready", "Hold button")
    /\ UNCHANGED <<pl, ls, now, btnVars, lpVars, recVars, app, sel,
                   pipe_call, ctl_obs, cleanup_log>>

\* run(): the check of the language pairs, then show_ready()
Run ==
    /\ pc \in {"constructed", "selected"}
    /\ IF app.lang_a_to_b = None \/ app.lang_b_to_a = None
       THEN pc' = "raised" /\ UNCHANGED lcd
       ELSE pc' = "poll_a" /\ lcd' = lcd_write(lcd, "Ready", "Hold button")
    /\ UNCHANGED <<pl, ls, now, btnVars, lpVars, recVars, app, sel,
                   pipe_call, ctl_obs, cleanup_log>>

\* run(), finally, once no recording is in progress: gpio.cleanup(), then
\* lcd.shutdown(), which ends with a cleared display
cleanup(l) == lcd_write(l, "", "")

\* the same two calls, as entries of the log of cleanup calls
cleanup_calls(c) == c \o <<"gpio.cleanup", "lcd.shutdown">>

\* stop_record() without its check of is_recording: a "released" found with
\* no recording in progress runs the pipeline too
PollButton_NoIdleGuard(x) ==
    \E raw \in Levels :
    LET p == ButtonOf(x)
        r == DebouncedButton_poll(btn[p], now, raw)
    IN
    /\ pc = "poll_" \o x
    /\ btn' = [btn EXCEPT ![p] = r.b]
    /\ btn_ret' = [btn_ret EXCEPT ![p] = r.ret]
    /\ CASE r.ret = "pressed" ->
              \E launch_ok \in BOOLEAN :
                 LET s == start_record(rec, procs, lcd, now, launch_ok) IN
                 /\ Len(s.procs) <= MaxProcs
                 /\ rec' = s.rec
                 /\ procs' = s.procs
                 /\ rec_log' = RecLog("start_record", is_recording(rec), NoProc,
                                      None, s.raised)
                 /\ lcd' = IF s.raised THEN cleanup(s.lcd) ELSE s.lcd
                 /\ cleanup_log' = IF s.raised THEN cleanup_calls(cleanup_log)
                                   ELSE cleanup_log
                 /\ pc' = IF s.raised THEN "raised" ELSE AfterButton(x)
                 /\ ctl_obs' = [ctl_obs EXCEPT
                                   !.lp_hold =
                                       LpHoldRecorded(@, ~is_recording(rec)
                                                         /\ is_recording(s.rec)),
                                   !.starter =
                                       IF ~is_recording(rec) /\ is_recording(s.rec)
                                       THEN x ELSE @]
                 /\ UNCHANGED <<rec_pos, rec_ret, pipe_call>>
         [] r.ret = "released" ->
              IF ~is_recording(rec)
              THEN /\ pipe_call' = [wav |-> wav_path, src |-> ReleasePair(app, x)[1],
                                    tgt |-> ReleasePair(app, x)[2]]
                   /\ ctl_obs' = [ctl_obs EXCEPT !.pipes = @ + 1]
                   /\ pc' = "pipe_" \o x
                   /\ UNCHANGED <<recVars, lcd, cleanup_log>>
              ELSE /\ stop_call
                   /\ pc' = "stop_" \o x
                   /\ UNCHANGED <<lcd, cleanup_log, ctl_obs, pipe_call>>
         [] OTHER ->
              /\ pc' = AfterButton(x)
              /\ UNCHANGED <<recVars, lcd, cleanup_log, ctl_obs, pipe_call>>
    /\ UNCHANGED <<pl, ls, now, obs, lpVars, app, sel>>

\* run(): one button is polled and its event handled, up to the wait inside
\* recorder.stop() when a recording is stopped.  When recorder.start()
\* raises, the finally block runs (nothing is being recorded) and the
\* exception leaves run()
PollButton(x) ==
    \E raw \in Levels :
    LET p == ButtonOf(x)
        r == DebouncedButton_poll(btn[p], now, raw)
    IN
    /\ pc = "poll_" \o x
    /\ btn' = [btn EXCEPT ![p] = r.b]
    /\ btn_ret' = [btn_ret EXCEPT ![p] = r.ret]
    /\ CASE r.ret = "pressed" ->
              \E launch_ok \in BOOLEAN :
                 LET s == start_record(rec, procs, lcd, now, launch_ok) IN
                 /\ Len(s.procs) <= MaxProcs
                 /\ rec' = s.rec
                 /\ procs' = s.procs
                 /\ rec_log' = RecLog("start_record", is_recording(rec), NoProc,
                                      None, s.raised)
                 /\ lcd' = IF s.raised THEN cleanup(s.lcd) ELSE s.lcd
                 /\ cleanup_log' = IF s.raised THEN cleanup_calls(cleanup_log)
                                   ELSE cleanup_log
                 /\ pc' = IF s.raised THEN "raised" ELSE AfterButton(x)
                 /\ ctl_obs' = [ctl_obs EXCEPT
                                   !.lp_hold =
                                       LpHoldRecorded(@, ~is_recording(rec)
                                                         /\ is_recording(s.rec)),
                                   !.starter =
                                       IF ~is_recording(rec) /\ is_recording(s.rec)
                                       THEN x ELSE @]
                 /\ UNCHANGED <<rec_pos, rec_ret>>
         [] r.ret = "released" ->
              IF ~is_recording(rec)
              THEN /\ pc' = AfterButton(x)
                   /\ UNCHANGED <<recVars, lcd, cleanup_log, ctl_obs>>
              ELSE /\ stop_call
                   /\ pc' = "stop_" \o x
                   /\ UNCHANGED <<lcd, cleanup_log, ctl_obs>>
         [] OTHER ->
              /\ pc' = AfterButton(x)
              /\ UNCHANGED <<recVars, lcd, cleanup_log, ctl_obs>>
    /\ UNCHANGED <<pl, ls, now, obs, lpVars, app, sel, pipe_call>>

PollA == PollButton("a")

PollB == PollButton("b")

\* stop_record() starts the pipeline run and returns without waiting for it
StopRecordCallsPipeline_Async(x) ==
    /\ pc = "stop_" \o x
    /\ stop_waited \/ stop_timed_out
    /\ pipe_call' = [wav |-> wav_path,
                     src |-> ReleasePair(app, x)[1], tgt |-> ReleasePair(app, x)[2]]
    /\ lcd' = lcd_write(lcd, "Transcribing...", "")
    /\ pc' = AfterButton(x)
    /\ ctl_obs' = [ctl_obs EXCEPT !.pipes = @ + 1]
    /\ UNCHANGED <<pl, ls, now, btnVars, lpVars, app, sel, cleanup_log>>

\* stop_record() calls pipeline.process() without waiting for recorder.stop()
StopRecordCallsPipeline_SkipsStop(x) ==
    /\ pc = "stop_" \o x
    /\ pipe_call' = [wav |-> wav_path,
                     src |-> ReleasePair(app, x)[1], tgt |-> ReleasePair(app, x)[2]]
    /\ lcd' = lcd_write(lcd, "Transcribing...", "")
    /\ pc' = "pipe_" \o x
    /\ ctl_obs' = [ctl_obs EXCEPT !.pipes = @ + 1]
    /\ UNCHANGED <<pl, ls, now, btnVars, lpVars, recVars, app, sel, cleanup_log>>

\* stop_record(): recorder.stop() returns and pipeline.process() is called
\* with the recorder's wav_path and the pair stop_record() was given
StopRecordCallsPipeline(x) ==
    /\ pc = "stop_" \o x
    /\ stop_waited \/ stop_timed_out
    /\ pipe_call' = [wav |-> wav_path,
                     src |-> ReleasePair(app, x)[1], tgt |-> ReleasePair(app, x)[2]]
    /\ lcd' = lcd_write(lcd, "Transcribing...", "")
    /\ pc' = "pipe_" \o x
    /\ ctl_obs' = [ctl_obs EXCEPT !.pipes = @ + 1]
    /\ UNCHANGED <<pl, ls, now, btnVars, lpVars, app, sel, cleanup_log>>

\* pipeline.process() returns: nothing was recognized, or the translation
\* is on the display; in the finally block the cleanup follows
PipelineReturns(x) ==
    /\ pc = "pipe_" \o x
    /\ \E l \in {lcd_write(lcd_clear_scroll(lcd), "No speech", "Try again"),
                 [line1 |-> "header", line2 |-> "out", scroll_text |-> "out"]} :
          lcd' = IF x = "f" THEN cleanup(l) ELSE l
    /\ cleanup_log' = IF x = "f" THEN cleanup_calls(cleanup_log) ELSE cleanup_log
    /\ pipe_call' = NoCall
    /\ pc' = AfterButton(x)
    /\ ctl_obs' = [ctl_obs EXCEPT !.starter = "none"]
    /\ UNCHANGED <<pl, ls, now, btnVars, lpVars, recVars, app, sel>>

\* a collaborator of the pipeline raises.  In the loop: the finally block
\* runs (no recording is in progress) and the exception leaves run().  In
\* the finally block: the exception leaves run() before the cleanup
PipelineRaises(x) ==
    /\ pc = "pipe_" \o x
    /\ lcd' = IF x = "f" THEN lcd ELSE cleanup(lcd)
    /\ cleanup_log' = IF x = "f" THEN cleanup_log ELSE cleanup_calls(cleanup_log)
    /\ pipe_call' = NoCall
    /\ pc' = "raised"
    /\ ctl_obs' = [ctl_obs EXCEPT !.starter = "none"]
    /\ UNCHANGED <<pl, ls, now, btnVars, lpVars, recVars, app, sel>>

\* run(): the long-press detector is polled; a True enters reselect_languages()
PollLongPress ==
    \E raw \in Levels :
    LET enabled == LpEnabledArg(rec)
        r == LongPressDetector_poll(lp, now, raw, enabled)
    IN
    /\ pc = "poll_lp"
    /\ lp' = r.d
    /\ lp_ret' = r.ret
    /\ ctl_obs' = [ctl_obs EXCEPT !.lp_polls = 1,
                                  !.lp_recording = Live(procs) # {},
                                  !.lp_enabled = enabled,
                                  !.lp_hold = LpHoldPolled(@, lp, r.d)]
    /\ IF r.ret
       THEN /\ pc' = "reselect_1"
            /\ lcd' = select_one_enter(lcd_write(lcd, "Change langs", "Rotate + press"),
                                       "Select Lang 1:")
       ELSE pc' = "tick" /\ UNCHANGED lcd
    /\ UNCHANGED <<pl, ls, now, btnVars, lpobs, recVars, app, sel, pipe_call, cleanup_log>>

\* the display tick ends a session in progress
TickScroll_DropsSession ==
    /\ pc = "tick"
    /\ pc' = "poll_a"
    /\ rec' = AudioRecorder
    /\ UNCHANGED <<pl, ls, now, btnVars, lpVars, procs, rec_pos, rec_ret, rec_log,
                   lcd, app, sel, pipe_call, ctl_obs, cleanup_log>>

\* run(): lcd.tick_scroll(is_recording), then time.sleep(poll_s)
TickScroll ==
    /\ pc = "tick"
    /\ pc' = "poll_a"
    /\ UNCHANGED <<pl, ls, now, btnVars, lpVars, recVars, lcd, app, sel,
                   pipe_call, ctl_obs, cleanup_log>>

\* run(), finally: a recording in progress is stopped with button A's pair,
\* up to the wait inside recorder.stop(); without one the cleanup is done
finally ==
    IF is_recording(rec)
    THEN /\ stop_call
         /\ pc' = "stop_f"
         /\ UNCHANGED <<lcd, cleanup_log>>
    ELSE /\ lcd' = cleanup(lcd)
         /\ cleanup_log' = cleanup_calls(cleanup_log)
         /\ pc' = "done"
         /\ UNCHANGED <<rec, procs, rec_ret, rec_log>>

\* KeyboardInterrupt anywhere in the try block: a wait or a selection in
\* progress is abandoned, and the finally block is entered
Interrupt ==
    /\ pc \in LoopPcs
    /\ sel' = None
    /\ IF is_recording(rec)
       THEN finally
       ELSE finally /\ rec_pos' = [at |-> None, since |-> NoTime]
    /\ pipe_call' = NoCall
    /\ ctl_obs' = [ctl_obs EXCEPT !.interrupted = TRUE,
                                  !.starter = IF is_recording(rec) THEN @
                                              ELSE "none"]
    /\ UNCHANGED <<pl, ls, now, btnVars, lpVars, app>>

Next ==
    \/ CtlTick
    \/ CtlProcExits
    \/ SelectLanguagesStartup
    \/ SelectFirst
    \/ SelectSecond
    \/ Run
    \/ PollA
    \/ PollB
    \/ \E x \in {"a", "b", "f"} : StopRecordCallsPipeline(x)
    \/ \E x \in {"a", "b", "f"} : PipelineReturns(x)
    \/ \E x \in {"a", "b", "f"} : PipelineRaises(x)
    \/ PollLongPress
    \/ TickScroll
    \/ Interrupt

Spec == Init /\ [][Next]_vars

-----------------------------------------------------------------------------
(* translation_pipeline.py: TranslationPipeline.process()                   *)

\* Python's s[:n]
Prefix(s, n) == IF Len(s) <= n THEN s ELSE SubSeq(s, 1, n)

\* what the collaborators can hand back
Texts == {None, "", "hello"}
Translations == {"ciao", "buongiorno a tutti voi"}
Artifacts == {None, "", "tts.wav"}
LangCodes == {"eng_Latn", "ita_Latn", "en"}
lcd_cols == 16

\* "if not text" with the empty string taken for speech
NoSpeech_NoneOnly(text) == text = None

\* "if not text": None and the empty string
NoSpeech(text) == text = None \/ text = ""

\* playback whatever synthesize() returned
HasArtifact_Always(wav) == TRUE

\* "if wav": neither None nor the empty string
HasArtifact(wav) == ~(wav = None \/ wav = "")

\* header = f"{src_lang[:3]}→{tgt_lang[:3]}"
Header(src_lang, tgt_lang) == Prefix(src_lang, 3) \o "→" \o Prefix(tgt_lang, 3)

PipeCall(f, args) == [f |-> f, args |-> args]

PipeInit ==
    /\ now = 0
    /\ btn = [p \in ButtonPins |-> DebouncedButton(LOW, now, TRUE, 0)]
    /\ btn_ret = [p \in ButtonPins |-> None]
    /\ obs = ObsInit(LOW)
    /\ lp = LongPressDetector(HIGH, now, FALSE, 0, 0)
    /\ lp_ret = FALSE
    /\ lpobs = LpObsInit
    /\ rec = AudioRecorder
    /\ procs = << >>
    /\ rec_pos = [at |-> None, since |-> NoTime]
    /\ rec_ret = NoTime
    /\ rec_log = RecLogInit
    /\ lcd \in {LCDDisplay, lcd_set_scroll_text(LCDDisplay, "an earlier translation")}
    /\ CtlIdleInit

\* process(wav_path, src_lang, tgt_lang) is called: "Transcribing..." is
\* shown and transcribe_fn(wav_path) called
ProcessCalled ==
    /\ pl.at \in {"idle", "returned", "raised"}
    /\ \E src_lang \in LangCodes, tgt_lang \in LangCodes :
          pl' = [TranslationPipeline EXCEPT
                    !.at = "transcribe", !.wav_path = wav_path,
                    !.src_lang = src_lang, !.tgt_lang = tgt_lang,
                    !.calls = << PipeCall("transcribe", <<wav_path>>) >>]
    /\ lcd' = lcd_write(lcd, "Transcribing...", "")
    /\ UNCHANGED <<now, btnVars, lpVars, recVars, app, pc, sel, pipe_call,
                   ctl_obs, cleanup_log, ls>>

\* transcribe_fn returns: without speech the scroll text is cleared, the
\* no-speech status shown and (None, None) returned; otherwise
\* "Translating..." is shown and translate_fn(text, src_lang, tgt_lang) called
TranscribeReturns ==
    /\ pl.at = "transcribe"
    /\ \E text \in Texts :
          IF NoSpeech(text)
          THEN /\ pl' = [pl EXCEPT !.at = "returned", !.text = text,
                                   !.ret = <<None, None>>]
               /\ lcd' = lcd_write(lcd_clear_scroll(lcd), "No speech", "Try again")
          ELSE /\ pl' = [pl EXCEPT !.at = "translate", !.text = text,
                            !.calls = Append(@, PipeCall("translate",
                                         <<text, pl.src_lang, pl.tgt_lang>>))]
               /\ lcd' = lcd_write(lcd, "Translating...", "")
    /\ UNCHANGED <<now, btnVars, lpVars, recVars, app, pc, sel, pipe_call,
                   ctl_obs, cleanup_log, ls>>

\* translate_fn returns: the header and the translation are shown, the
\* scroll text set, and tts.synthesize(out, tgt_lang) called
TranslateReturns ==
    /\ pl.at = "translate"
    /\ \E out \in Translations :
          /\ pl' = [pl EXCEPT !.at = "synthesize", !.out = out,
                       !.calls = Append(@, PipeCall("synthesize", <<out, pl.tgt_lang>>))]
          /\ lcd' = lcd_write(lcd_set_scroll_text(lcd, out),
                              Header(pl.src_lang, pl.tgt_lang), Prefix(out, lcd_cols))
    /\ UNCHANGED <<now, btnVars, lpVars, recVars, app, pc, sel, pipe_call,
                   ctl_obs, cleanup_log, ls>>

\* tts.synthesize returns: with an artifact player.play_wav(wav) is called,
\* without one process() returns (text, out)
SynthesizeReturns ==
    /\ pl.at = "synthesize"
    /\ \E wav \in Artifacts :
          IF HasArtifact(wav)
          THEN pl' = [pl EXCEPT !.at = "play", !.wav = wav,
                         !.calls = Append(@, PipeCall("play_wav", <<wav>>))]
          ELSE pl' = [pl EXCEPT !.at = "returned", !.wav = wav,
                         !.ret = <<pl.text, pl.out>>]
    /\ UNCHANGED <<now, btnVars, lpVars, recVars, lcd, app, pc, sel, pipe_call,
                   ctl_obs, cleanup_log, ls>>

\* player.play_wav returns and process() returns (text, out)
PlayReturns ==
    /\ pl.at = "play"
    /\ pl' = [pl EXCEPT !.at = "returned", !.ret = <<pl.text, pl.out>>]
    /\ UNCHANGED <<now, btnVars, lpVars, recVars, lcd, app, pc, sel, pipe_call,
                   ctl_obs, cleanup_log, ls>>

\* the collaborator being called raises, and the exception leaves process()
CollaboratorRaises ==
    /\ pl.at \in {"transcribe", "translate", "synthesize", "play"}
    /\ pl' = [pl EXCEPT !.at = "raised"]
    /\ UNCHANGED <<now, btnVars, lpVars, recVars, lcd, app, pc, sel, pipe_call,
                   ctl_obs, cleanup_log, ls>>

PipeNext ==
    \/ ProcessCalled
    \/ TranscribeReturns
    \/ TranslateReturns
    \/ SynthesizeReturns
    \/ PlayReturns
    \/ CollaboratorRaises

SpecPipe == PipeInit /\ [][PipeNext]_vars

\* C15: once transcribe_fn has returned the empty string, process() has
\* returned (None, None), its only collaborator call is the transcription,
\* the scroll text is empty and the display shows the no-speech status.
C15_EmptyTextReturnsNone ==
    pl.text = ""
        => /\ pl.at = "returned"
           /\ pl.ret = <<None, None>>
           /\ Len(pl.calls) = 1
           /\ pl.calls[1].f = "transcribe"
           /\ lcd = [line1 |-> "No speech", line2 |-> "Try again", scroll_text |-> ""]

C15_Witness ==
    /\ pl.at = "returned"
    /\ pl.text = ""
    /\ pl.src_lang = "eng_Latn"
    /\ pl.tgt_lang = "ita_Latn"

\* the first three characters of the codes the pipeline is called with
C16_First3(code) ==
    CASE code = "eng_Latn" -> "eng"
      [] code = "ita_Latn" -> "ita"
      [] code = "en" -> "en"

\* the collaborator calls of a whole run with speech
C16_CallsInOrder ==
    << [f |-> "transcribe", args |-> <<pl.wav_path>>],
       [f |-> "translate",  args |-> <<pl.text, pl.src_lang, pl.tgt_lang>>],
       [f |-> "synthesize", args |-> <<pl.out, pl.tgt_lang>>],
       [f |-> "play_wav",   args |-> <<pl.wav>>] >>

\* C16: with recognized text the collaborator calls are, in this order,
\* transcribe, translate(text, src, tgt), synthesize(out, tgt) and, if and
\* only if synthesize returned an artifact, play_wav(that artifact); process()
\* then returns (text, out) and the display's first line is the header made
\* of the first three characters of each code around the arrow.
C16_SpeechRunsCollaboratorsInOrder ==
    /\ \A i \in 1..Len(pl.calls) :
          /\ i <= 4
          /\ i >= 2 => pl.calls[i] = C16_CallsInOrder[i]
          /\ i = 4 => pl.wav \notin {None, ""}
    /\ (pl.at = "returned" /\ pl.text \notin {None, ""})
          => /\ pl.ret = <<pl.text, pl.out>>
             /\ pl.calls = SubSeq(C16_CallsInOrder, 1,
                                  IF pl.wav \in {None, ""} THEN 3 ELSE 4)
             /\ lcd.line1 = C16_First3(pl.src_lang) \o "→" \o C16_First3(pl.tgt_lang)

C16_Witness ==
    /\ pl.at = "returned"
    /\ pl.ret = <<"hello", "ciao">>
    /\ pl.wav = "tts.wav"
    /\ Len(pl.calls) = 4
    /\ lcd.line1 = "eng→ita"

-----------------------------------------------------------------------------
(* language_selector.py: LanguageSelector.select_one() and select_pair()    *)

MaxOptions == 3         \* longest option list given to select_pair()
MaxInitialIndex == 4    \* initial_index is in -MaxInitialIndex..MaxInitialIndex

\* main.py, config: LANG_CHOICES in full
AllChoices ==
    << <<"English", "eng_Latn">>, <<"Italian", "ita_Latn">>,
       <<"Spanish", "spa_Latn">>, <<"Portuguese", "por_Latn">>,
       <<"French", "fra_Latn">> >>

\* the selector takes the switch for active-high
sw_pressed_ActiveHigh(level) == level = HIGH

\* _sw_pressed(level), with sw_active_low=True as build_app.py wires it
sw_pressed(level) == level = LOW

IndexError == <<"IndexError", "IndexError">>

\* Python's options[index]: a negative index counts from the end
Subscript(options, index) ==
    IF index \in 0..(Len(options) - 1) THEN options[index + 1]
    ELSE IF index \in (-Len(options))..(-1) THEN options[Len(options) + index + 1]
    ELSE IndexError

\* the selection starts at initial_index as given
StartIndex_NoMod(options, initial_index) == initial_index

\* "index = initial_index % len(options)"
StartIndex(options, initial_index) == initial_index % Len(options)

\* the two directions exchanged
Rotate_Inverted(index, n, clk, dt) ==
    IF dt # clk THEN (index - 1) % n ELSE (index + 1) % n

\* the rotation step taken when CLK has changed
Rotate(index, n, clk, dt) ==
    IF dt # clk THEN (index + 1) % n ELSE (index - 1) % n

Prompt(round) == IF round = 1 THEN "Select Lang 1:" ELSE "Select Lang 2:"

\* select_one() from its call up to its loop, in select_pair()'s given round:
\* the start index and option, and the first samples of CLK and SW (the
\* latter after the wait for a released switch, of at most 0.5 s)
select_one_begin(f, round, last_clk, last_sw) ==
    LET index == StartIndex(f.options, f.initial_index)
        nc == Subscript(f.options, index)
    IN [f EXCEPT !.at = IF nc = IndexError THEN "raised" ELSE "loop",
                 !.round = round,
                 !.index = index,
                 !.name_code = nc,
                 !.last_clk = last_clk,
                 !.last_sw = last_sw,
                 !.turned = f.turned \/ f.rotated,
                 !.rotated = FALSE]

\* one more read of SW, for the observer of the reads
SwRead(f, level) ==
    [f EXCEPT !.releases = IF sw_pressed(f.last_read) /\ ~sw_pressed(level) /\ @ < 2
                           THEN @ + 1 ELSE @,
              !.last_read = level]

\* the level SW is read at when it is not pressed
SwReleased == CHOOSE level \in Levels : ~sw_pressed(level)

\* the settle loop of select_one(): SW is read until it is released or 0.5 s
\* are over; sw0 is the first read, and settled tells whether a later read
\* found SW released in time
settle(f, sw0, settled) ==
    LET f1 == SwRead([f EXCEPT !.sw0 = sw0, !.settled = settled], sw0) IN
    IF settled THEN SwRead(f1, SwReleased) ELSE f1

\* last_sw is taken to be the released level
last_sw_after_settle_Released(f, read) ==
    [SwRead(f, read) EXCEPT !.last_sw = SwReleased,
                            !.seen_released = ~sw_pressed(f.sw0) \/ f.settled
                                                 \/ ~sw_pressed(read)]

\* "last_sw = self.gpio.input(self.sw_pin)", after the settle loop
last_sw_after_settle(f, read) ==
    [SwRead(f, read) EXCEPT !.last_sw = read,
                            !.seen_released = ~sw_pressed(f.sw0) \/ f.settled
                                                 \/ ~sw_pressed(read)]

\* the first sample of a change to pressed is taken as the selection
sw_selects_NoReread(last_sw, sw, sw2) == sw # last_sw /\ sw_pressed(sw)

\* "Press: edge-detect + debounce": SW differs from last_sw, still does
\* after the debounce sleep, and is pressed
sw_selects(last_sw, sw, sw2) ==
    sw # last_sw /\ sw2 # last_sw /\ sw_pressed(sw2)

\* select_one() returns with SW as it is
wait_release_Skipped(f) == f

\* "wait for release so we don't double-trigger": SW is read until it is
\* released
wait_release(f) == SwRead(f, SwReleased)

\* the display select_one() leaves at its loop's start
select_one_begin_lcd(l, f) ==
    IF f.at = "raised" THEN lcd_clear_scroll(l)
    ELSE lcd_write(lcd_clear_scroll(l), Prompt(f.round), f.name_code[1])

\* the reverse pair repeats the forward pair
select_pair_return_NotSwapped(first, second) ==
    [lang_a_to_b |-> <<first[2], second[2]>>,
     lang_b_to_a |-> <<first[2], second[2]>>,
     name_1 |-> first[1], name_2 |-> second[1]]

\* what select_pair() returns for the two selections
select_pair_return(first, second) ==
    [lang_a_to_b |-> <<first[2], second[2]>>,
     lang_b_to_a |-> <<second[2], first[2]>>,
     name_1 |-> first[1], name_2 |-> second[1]]

SelInit ==
    /\ now = 0
    /\ btn = [p \in ButtonPins |-> DebouncedButton(LOW, now, TRUE, 0)]
    /\ btn_ret = [p \in ButtonPins |-> None]
    /\ obs = ObsInit(LOW)
    /\ lp = LongPressDetector(HIGH, now, FALSE, 0, 0)
    /\ lp_ret = FALSE
    /\ lpobs = LpObsInit
    /\ RecIdleInit
    /\ CtlIdleInit

\* select_pair(choices, initial_index) is called and enters the first
\* select_one()
SelectPairCalled ==
    /\ ls.at = "idle"
    /\ \E n \in 1..MaxOptions, initial_index \in (-MaxInitialIndex)..MaxInitialIndex,
          last_clk \in Levels, sw0 \in Levels, settled \in BOOLEAN,
          last_sw \in Levels :
          /\ settled => sw_pressed(sw0)
          /\ ls' = last_sw_after_settle(
                      settle(select_one_begin(
                                [LanguageSelector EXCEPT
                                    !.options = SubSeq(AllChoices, 1, n),
                                    !.initial_index = initial_index],
                                1, last_clk, last_sw),
                             sw0, settled),
                      last_sw)
          /\ lcd' = select_one_begin_lcd(lcd, ls')
    /\ UNCHANGED <<now, btnVars, lpVars, recVars, app, pc, sel, pipe_call,
                   ctl_obs, cleanup_log, pl>>

\* one iteration of select_one()'s loop: CLK, DT and SW are sampled, a CLK
\* change rotates the selection and rewrites the display, and an SW change
\* that lasts beyond the debounce sleep to a pressed level ends the loop
\* (after the wait for the release).  sw2 is the level of SW after the
\* debounce sleep, which the code reads when SW differs from last_sw
SelectOneIteration ==
    /\ ls.at = "loop"
    /\ \E clk \in Levels, dt \in Levels, sw \in Levels, sw2 \in Levels :
          LET turn == clk # ls.last_clk
              index == IF turn THEN Rotate(ls.index, Len(ls.options), clk, dt)
                       ELSE ls.index
              nc == IF turn THEN Subscript(ls.options, index) ELSE ls.name_code
              changed == sw # ls.last_sw /\ sw2 # ls.last_sw
              chosen == sw_selects(ls.last_sw, sw, sw2) /\ nc # IndexError
              read == IF sw # ls.last_sw THEN SwRead(SwRead(ls, sw), sw2)
                      ELSE SwRead(ls, sw)
              f == IF chosen THEN wait_release(read) ELSE read
          IN /\ ls' = [f EXCEPT
                         !.at = IF nc = IndexError THEN "raised"
                                ELSE IF chosen THEN "chosen" ELSE "loop",
                         !.index = index,
                         !.name_code = nc,
                         !.last_clk = IF turn THEN clk ELSE @,
                         !.last_sw = IF changed /\ nc # IndexError THEN sw2 ELSE @,
                         !.clk = clk, !.dt = dt, !.sw = sw, !.sw2 = sw2,
                         !.seen_released =
                            @ \/ ~sw_pressed(sw)
                              \/ (sw # ls.last_sw /\ ~sw_pressed(sw2)),
                         !.flip = ~@,
                         !.rotated = @ \/ turn]
             /\ lcd' = IF turn /\ nc # IndexError
                       THEN lcd_write(lcd, Prompt(ls.round), nc[1])
                       ELSE lcd
    /\ UNCHANGED <<now, btnVars, lpVars, recVars, app, pc, sel, pipe_call,
                   ctl_obs, cleanup_log, pl>>

\* select_one() has returned (name, code): select_pair() enters the second
\* select_one(), or returns the pairs and the names
SelectPairContinues ==
    /\ ls.at = "chosen"
    /\ IF ls.round = 1
       THEN \E last_clk \in Levels, sw0 \in Levels, settled \in BOOLEAN,
               last_sw \in Levels :
               /\ settled => sw_pressed(sw0)
               /\ ls' = last_sw_after_settle(
                           settle(select_one_begin([ls EXCEPT !.first = ls.name_code],
                                                   2, last_clk, last_sw),
                                  sw0, settled),
                           last_sw)
               /\ lcd' = select_one_begin_lcd(lcd, ls')
       ELSE /\ ls' = [ls EXCEPT !.at = "returned",
                                !.ret = select_pair_return(ls.first, ls.name_code)]
            /\ UNCHANGED lcd
    /\ UNCHANGED <<now, btnVars, lpVars, recVars, app, pc, sel, pipe_call,
                   ctl_obs, cleanup_log, pl>>

SelNext ==
    \/ SelectPairCalled
    \/ SelectOneIteration
    \/ SelectPairContinues

SpecSel == SelInit /\ [][SelNext]_vars

\* C17: for an option list of length N >= 1 and any initial_index, the
\* index is in 0..N-1 in every state of a selection, no subscript fails, the
\* current and the returned (name, code) are elements of the list.
C17_IndexStaysInRange ==
    ls.at # "idle"
        => /\ ls.at # "raised"
           /\ ls.index \in 0..(Len(ls.options) - 1)
           /\ \E i \in 1..Len(ls.options) : ls.name_code = ls.options[i]
           /\ ls.round = 2 => \E i \in 1..Len(ls.options) : ls.first = ls.options[i]
           /\ ls.at = "returned"
                 => \E i \in 1..Len(ls.options), j \in 1..Len(ls.options) :
                       /\ ls.ret.lang_a_to_b = <<ls.options[i][2], ls.options[j][2]>>
                       /\ ls.ret.name_1 = ls.options[i][1]
                       /\ ls.ret.name_2 = ls.options[j][1]

\* a selection that started from a negative initial_index and was rotated
\* has ended on the last of three options
C17_Witness ==
    /\ ls.at = "chosen"
    /\ ls.initial_index < 0
    /\ ls.rotated
    /\ Len(ls.options) = 3
    /\ ls.index = 2

\* C18: in an iteration of select_one()'s loop that sees CLK changed, the
\* index moves one step, up (N-1 to 0) when DT differs from CLK and down
\* (0 to N-1) when DT equals CLK, and the display shows the prompt and the
\* newly indexed option; when CLK is as last seen, the index and the display
\* stay.
C18_RotationStep ==
    (ls.at = "loop" /\ ls'.flip # ls.flip)
        => LET n == Len(ls.options) IN
           IF ls'.clk # ls.last_clk
           THEN /\ ls'.index = IF ls'.dt # ls'.clk
                                THEN (IF ls.index = n - 1 THEN 0 ELSE ls.index + 1)
                                ELSE (IF ls.index = 0 THEN n - 1 ELSE ls.index - 1)
                /\ lcd'.line1 = (IF ls.round = 1 THEN "Select Lang 1:"
                                 ELSE "Select Lang 2:")
                /\ lcd'.line2 = ls.options[ls'.index + 1][1]
                /\ ls'.last_clk = ls'.clk
           ELSE /\ ls'.index = ls.index
                /\ lcd' = lcd

C18_EachClkChangeIsOneStep == [][C18_RotationStep]_vars

\* a step down from the first of three options has wrapped to the last
C18_Witness ==
    /\ ls.at = "loop"
    /\ ls.round = 1
    /\ ls.initial_index = 0
    /\ ls.rotated
    /\ ls.dt = ls.clk
    /\ ls.clk = ls.last_clk
    /\ Len(ls.options) = 3
    /\ ls.index = 2
    /\ lcd.line2 = "Spanish"

\* the index initial_index stands for: the j in 0..N-1 with
\* initial_index = q*N + j
C19_Start ==
    CHOOSE j \in 0..(Len(ls.options) - 1) :
        \E q \in (-(MaxInitialIndex + 1))..(MaxInitialIndex + 1) :
            ls.initial_index = q * Len(ls.options) + j

\* C19: each of select_pair()'s two rounds is at choices[initial_index]
\* until it is rotated; the pairs select_pair() returns are swaps of each
\* other, made of the two rounds' codes; and after two rounds without a
\* rotation both selections are choices[initial_index].
C19_PairOfTwoRounds ==
    /\ (ls.at \in {"loop", "chosen"} /\ ~ls.rotated)
          => /\ ls.index = C19_Start
             /\ ls.name_code = ls.options[C19_Start + 1]
    /\ ls.at = "returned"
          => /\ ls.ret.lang_a_to_b = <<ls.first[2], ls.name_code[2]>>
             /\ ls.ret.lang_b_to_a = <<ls.name_code[2], ls.first[2]>>
             /\ (~ls.rotated /\ ~ls.turned)
                   => /\ ls.ret.lang_a_to_b = <<ls.options[C19_Start + 1][2],
                                                ls.options[C19_Start + 1][2]>>
                      /\ ls.ret.name_1 = ls.options[C19_Start + 1][1]
                      /\ ls.ret.name_2 = ls.options[C19_Start + 1][1]

\* select_pair(3 options, initial_index=0) has returned after two presses
\* without a rotation: the same language twice
C19_Witness ==
    /\ ls.at = "returned"
    /\ Len(ls.options) = 3
    /\ ls.initial_index = 0
    /\ ~ls.rotated
    /\ ~ls.turned
    /\ ls.ret.lang_a_to_b = <<"eng_Latn", "eng_Latn">>
    /\ ls.ret.lang_b_to_a = <<"eng_Latn", "eng_Latn">>

\* C7: whenever run() polls the long-press detector while a capture process
\* is in progress, the poll is made with enabled=False and returns False, and
\* reselect_languages() is never being executed while a recording is in
\* progress.
C7_NoReselectWhileRecording ==
    /\ (ctl_obs.lp_polls = 1 /\ ctl_obs.lp_recording)
          => (~ctl_obs.lp_enabled /\ ~lp_ret)
    /\ pc \in {"reselect_1", "reselect_2"}
          => (~is_recording(rec) /\ Live(procs) = {})

\* the switch has been down, debounced, for the long-press time when the
\* detector is polled during a recording
C7_Witness ==
    /\ pc = "tick"
    /\ ctl_obs.lp_polls = 1
    /\ ctl_obs.lp_recording
    /\ is_recording(rec)
    /\ lp.raw_last = LOW
    /\ lp.stable = LOW
    /\ now - lp.raw_changed_t >= DEBOUNCE_S + ENC_LONG_PRESS_S

\* C10: while the pipeline runs on behalf of a button's handler, that
\* button's last poll returned "released", the recording has been stopped,
\* and process() was given the recorder's wav_path with lang_a_to_b for
\* button A and lang_b_to_a for button B; the wait inside the handler's
\* recorder.stop() is likewise entered only on that button's "released".
C10_ReleaseUsesItsButtonsPair ==
    /\ pc \in {"stop_a", "pipe_a"} => btn_ret["A"] = "released"
    /\ pc \in {"stop_b", "pipe_b"} => btn_ret["B"] = "released"
    /\ pc = "pipe_a"
          => /\ ~is_recording(rec)
             /\ pipe_call = [wav |-> "audio_files/speech.wav",
                             src |-> app.lang_a_to_b[1], tgt |-> app.lang_a_to_b[2]]
    /\ pc = "pipe_b"
          => /\ ~is_recording(rec)
             /\ pipe_call = [wav |-> "audio_files/speech.wav",
                             src |-> app.lang_b_to_a[1], tgt |-> app.lang_b_to_a[2]]

\* button B is released while button A is still held, with two different
\* languages selected
C10_Witness ==
    /\ pc = "pipe_b"
    /\ btn_ret["B"] = "released"
    /\ btn["A"].stable = HIGH
    /\ app.lang_a_to_b # app.lang_b_to_a
    /\ pipe_call.src = app.lang_b_to_a[1]

\* C11: run() entered with a language pair unset raises at once: the inputs
\* have not been polled, the display not written, no capture process
\* launched and no pipeline call made; and the loop is never at work with a
\* pair unset.
C11_RunBeforeSelectionFailsFast ==
    (app.lang_a_to_b = None \/ app.lang_b_to_a = None)
        => /\ pc \in {"constructed", "startup_1", "startup_2", "raised"}
           /\ pc = "raised"
                 => /\ btn_ret = [p \in ButtonPins |-> None]
                    /\ \A p \in ButtonPins : btn[p].raw_changed_t = 1
                    /\ ctl_obs.lp_polls = 0
                    /\ lp.raw_changed_t = 1
                    /\ lcd = LCDDisplay
                    /\ rec = AudioRecorder
                    /\ procs = << >>
                    /\ pipe_call = NoCall

\* run() has raised, some time after the construction
C11_Witness ==
    /\ pc = "raised"
    /\ app = AppController
    /\ now > 1

\* C12: the controller's pairs are either both unset or exact swaps of each
\* other in every state, and they change only when a whole selection round
\* completes: not when its first half is done, and not when the round is
\* interrupted.
C12_PairsAreSwaps ==
    \/ app.lang_a_to_b = None /\ app.lang_b_to_a = None
    \/ /\ app.lang_a_to_b # None
       /\ app.lang_b_to_a # None
       /\ app.lang_b_to_a = <<app.lang_a_to_b[2], app.lang_a_to_b[1]>>

C12_PairsChangeOnlyOnCompletion ==
    app' # app => /\ pc \in {"startup_2", "reselect_2"}
                  /\ pc' \in {"selected", "tick"}

C12_PairsReplacedTogether ==
    [](C12_PairsAreSwaps) /\ [][C12_PairsChangeOnlyOnCompletion]_vars

\* a re-selection round is half done with a first language other than the
\* one in force
C12_Witness ==
    /\ pc = "reselect_2"
    /\ sel # None
    /\ app.lang_a_to_b # None
    /\ sel[2] # app.lang_a_to_b[1]

\* C13: while pipeline.process() runs, in the loop or in the finally block,
\* the recorder is Idle and its capture process has been waited for; and
\* when a collaborator's exception leaves process() and run(), the recorder
\* is Idle.
C13_IdleDuringPipeline ==
    pc \in {"pipe_a", "pipe_b", "pipe_f"}
        => (~is_recording(rec) /\ Live(procs) = {} /\ rec_pos.at = None)

C13_IdleWhenPipelineRaises ==
    (pc \in {"pipe_a", "pipe_b", "pipe_f"} /\ pc' = "raised")
        => (~is_recording(rec') /\ Live(procs') = {} /\ rec_pos'.at = None)

C13_PipelineFailureLeavesIdle ==
    [](C13_IdleDuringPipeline) /\ [][C13_IdleWhenPipelineRaises]_vars

\* an exception has left run() after a recording was stopped, so out of the
\* pipeline
C13_Witness ==
    /\ pc = "raised"
    /\ rec_log.op = "stop"
    /\ rec_log.path \in {"graceful", "forced"}
    /\ Len(procs) >= 1
    /\ ~is_recording(rec)

\* C14: once run() has ended after a KeyboardInterrupt, the recorder is Idle
\* and the cleanup path has called gpio.cleanup() once and then
\* lcd.shutdown() once.
C14_CleanupOnceAfterInterrupt ==
    (ctl_obs.interrupted /\ Ended)
        => /\ ~is_recording(rec)
           /\ Live(procs) = {}
           /\ cleanup_log = <<"gpio.cleanup", "lcd.shutdown">>

\* C22: run() polls the detector disabled whenever a recording is in
\* progress, and a hold of the encoder switch that the detector took up
\* before a recording began is not remembered: the detector does not fire
\* for that hold once the recording has ended.
C22_HoldBeforeRecordingNeverFires ==
    /\ (ctl_obs.lp_polls = 1 /\ ctl_obs.lp_recording) => ~ctl_obs.lp_enabled
    /\ pc = "reselect_1" => ctl_obs.lp_hold # "recorded"

\* C23: the session goes from Idle to Recording only in a start() made on an
\* Idle recorder, which run() reaches only from a button poll that reported
\* "pressed", and from Recording to Idle only at the end of the wait inside
\* a stop(); every other step of the controller (polls that report nothing,
\* long-press polls with their is_recording query, display ticks, pipeline
\* runs, selection rounds, the interrupt) leaves the session as it was.
C23_SessionStep ==
    /\ (~is_recording(rec) /\ is_recording(rec'))
          => /\ rec_log' # rec_log
             /\ rec_log'.op = "start_record"
             /\ ~rec_log'.was /\ ~rec_log'.raised
             /\ pc \in {"poll_a", "poll_b"}
             /\ \E p \in ButtonPins : btn_ret'[p] = "pressed" /\ btn'[p] # btn[p]
    /\ (is_recording(rec) /\ ~is_recording(rec'))
          => /\ rec_log.op = "stop" /\ rec_log.was
             /\ rec_log'.path \in {"graceful", "forced"}
             /\ rec_pos.at = "wait" /\ rec_pos'.at = None
             /\ pc \in {"stop_a", "stop_b", "stop_f"}
    /\ (is_recording(rec) /\ is_recording(rec')) => rec' = rec

C23_SessionChangesOnlyInStartAndStop == [][C23_SessionStep]_vars

\* a second session is in progress, begun by button B, and run() has since
\* polled the detector and ticked the display
C23_Witness ==
    /\ is_recording(rec)
    /\ Len(procs) = 2
    /\ rec_log.op = "start_record"
    /\ btn_ret["B"] = "pressed"
    /\ ctl_obs.lp_recording
    /\ pc = "poll_a"

\* C24: every process launched is either the session's or has been waited
\* for, and the step of stop() that takes the session from Recording to
\* Idle leaves the session's process signalled and waited for: waited for
\* within the timeout, or killed, once the timeout is over, and then waited
\* for.
C24_NoProcessLeftBehind ==
    \A i \in 1..Len(procs) : procs[i].reaped \/ rec.proc = i

C24_StopStep ==
    (is_recording(rec) /\ ~is_recording(rec'))
        => /\ procs'[rec.proc].sigint >= 1
           /\ procs'[rec.proc].reaped
           /\ procs'[rec.proc].state = "exited"
           /\ procs'[rec.proc].killed => now - rec_pos.since >= timeout_s
           /\ ~procs'[rec.proc].killed => procs[rec.proc].state = "exited"

C24_StopReapsOnEveryPath ==
    [](C24_NoProcessLeftBehind) /\ [][C24_StopStep]_vars

\* two sessions have been stopped, the second by kill() after the timeout
C24_Witness ==
    /\ ~is_recording(rec)
    /\ Len(procs) = 2
    /\ procs[1].reaped /\ procs[2].reaped
    /\ procs[2].killed
    /\ rec_log.op = "stop"
    /\ rec_log.path = "forced"

\* C25: inside the loop of run() the steps follow each other in one order:
\* button A's poll with its handling (stop and pipeline), then button B's
\* with its handling, then the detector's poll with a re-selection, then
\* the display tick; only an exception or the interrupt leaves this order.
\* When button B's poll reports the edge button A's poll reported in the
\* same iteration, B's handling changes nothing: after two presses the
\* session is the one A's start_record() began, after two releases no
\* session is left to stop.
C25_Order ==
    (pc \in LoopPcs /\ pc' # pc /\ pc' \notin {"done", "stop_f", "raised"})
        => pc' \in CASE pc = "poll_a" -> {"stop_a", "poll_b"}
                     [] pc = "stop_a" -> {"pipe_a"}
                     [] pc = "pipe_a" -> {"poll_b"}
                     [] pc = "poll_b" -> {"stop_b", "poll_lp"}
                     [] pc = "stop_b" -> {"pipe_b"}
                     [] pc = "pipe_b" -> {"poll_lp"}
                     [] pc = "poll_lp" -> {"reselect_1", "tick"}
                     [] pc = "reselect_1" -> {"reselect_2"}
                     [] pc = "reselect_2" -> {"tick"}
                     [] pc = "tick" -> {"poll_a"}

C25_Tie ==
    (/\ pc = "poll_b" /\ pc' \in {"poll_lp", "stop_b", "raised"}
     /\ btn_ret["A"] # None /\ btn_ret'["B"] = btn_ret["A"])
        => /\ pc' = "poll_lp"
           /\ rec' = rec /\ procs' = procs /\ rec_pos' = rec_pos
           /\ lcd' = lcd /\ pipe_call' = pipe_call
           /\ btn_ret["A"] = "pressed"
                 => (is_recording(rec) /\ rec_log.op = "start_record"
                        /\ ~rec_log.was)
           /\ btn_ret["A"] = "released" => ~is_recording(rec)

C25_AThenBThenLongPressThenTick == [][C25_Order /\ C25_Tie]_vars

\* both buttons have reported "released" in one iteration: A's handling
\* stopped the recording, B's found nothing to stop
C25_Witness ==
    /\ pc = "poll_lp"
    /\ btn_ret["A"] = "released"
    /\ btn_ret["B"] = "released"
    /\ rec_log.op = "stop"
    /\ rec_log.path \in {"graceful", "forced"}
    /\ pipe_call = NoCall
    /\ ~is_recording(rec)

\* C26: a recording in progress when the loop of run() is left is stopped
\* by the finally block, and its pipeline run gets button A's pair
\* (lang_a_to_b) whichever button began the recording; gpio.cleanup() and
\* lcd.shutdown() are not called before that stop and that pipeline run, and
\* run() never ends with a recording in progress.
C26_ExitStopsWithPairA ==
    /\ pc \in {"stop_f", "pipe_f"}
          => (ctl_obs.interrupted /\ cleanup_log = << >>)
    /\ pc = "pipe_f"
          => /\ ~is_recording(rec)
             /\ rec_log.op = "stop" /\ rec_log.was
             /\ pipe_call = [wav |-> "audio_files/speech.wav",
                             src |-> app.lang_a_to_b[1],
                             tgt |-> app.lang_a_to_b[2]]
    /\ Ended => (~is_recording(rec) /\ Live(procs) = {})

\* the interrupt came while button B alone was held, with two different
\* languages selected
C26_Witness ==
    /\ pc = "pipe_f"
    /\ btn["A"].stable = LOW
    /\ btn["B"].stable = HIGH
    /\ btn_ret["B"] = "pressed"
    /\ app.lang_a_to_b # app.lang_b_to_a
    /\ pipe_call.src = app.lang_a_to_b[1]
    /\ pipe_call.tgt = app.lang_a_to_b[2]

\* C27: inside the loop of run() the thread is at one of the polls (button
\* A, button B, the detector) or at the display tick, or it is held in the
\* wait of recorder.stop() or in a selection round of the re-selection;
\* nothing else keeps it from polling.
C27_OnlyStopAndSelectionBlock ==
    pc \in LoopPcs
        => \/ pc \in {"poll_a", "poll_b", "poll_lp", "tick"}
           \/ rec_pos.at = "wait"
           \/ pc \in {"reselect_1", "reselect_2"}

\* no pipeline.process() call, no select_pair() call is in progress
C27_NoPipelineRun == pipe_call = NoCall

C27_NoSelection == sel = None

\* C27, amended: the thread is at one of the polls or at the display tick
\* with no wait, no pipeline run and no selection pending; or in the wait of
\* recorder.stop(); or inside the pipeline.process() call of stop_record(),
\* which returns only when the pipeline run is over; or in a selection
\* round, at startup or in the re-selection.  Only one of these is in
\* progress at a time.
C27_StopPipelineAndSelectionBlock ==
    /\ pc \in {"poll_a", "poll_b", "poll_lp", "tick"}
          => (rec_pos.at = None /\ C27_NoPipelineRun /\ C27_NoSelection)
    /\ rec_pos.at = "wait"
          => (pc \in {"stop_a", "stop_b", "stop_f"} /\ C27_NoPipelineRun
                 /\ C27_NoSelection /\ is_recording(rec))
    /\ ~C27_NoPipelineRun
          => (pc \in {"pipe_a", "pipe_b", "pipe_f"} /\ rec_pos.at = None
                 /\ C27_NoSelection /\ ~is_recording(rec))
    /\ pc \in {"startup_1", "startup_2", "reselect_1", "reselect_2"}
          => (rec_pos.at = None /\ C27_NoPipelineRun /\ ~is_recording(rec))
    /\ pc \in LoopPcs
          => \/ pc \in {"poll_a", "poll_b", "poll_lp", "tick"}
             \/ rec_pos.at = "wait"
             \/ ~C27_NoPipelineRun
             \/ pc \in {"reselect_1", "reselect_2"}

\* the pipeline runs for button B's release while button A's press has been
\* there for the debounce time and waits to be polled
C27_Witness ==
    /\ pc = "pipe_b"
    /\ ~C27_NoPipelineRun
    /\ rec_pos.at = None
    /\ btn["A"].stable = LOW
    /\ btn["A"].raw_last = HIGH
    /\ now - btn["A"].raw_changed_t >= DEBOUNCE_S

\* C28: a round of select_one() that found SW pressed at its first read ends
\* only after a read of that round has found SW released and later reads
\* have found it pressed: whether the settle loop saw the release or gave up
\* after its 0.5 s, the press from before the call selects nothing.
C28_HeldSwitchDoesNotSelect ==
    /\ (ls.at = "chosen" /\ sw_pressed(ls.sw0))
          => /\ ls.seen_released
             /\ sw_pressed(ls.sw) /\ sw_pressed(ls.sw2)
    /\ (ls.at = "loop" /\ sw_pressed(ls.sw0) /\ ~ls.seen_released)
          => sw_pressed(ls.last_sw)

\* SW was pressed from before the call and past the settle loop, and the
\* round has ended all the same
C28_Witness ==
    /\ ls.at = "chosen"
    /\ ls.round = 1
    /\ sw_pressed(ls.sw0)
    /\ ~ls.settled
    /\ ls.seen_released
    /\ ls.releases = 2

\* C29: select_one() returns only when SW has been read released after the
\* press it accepted, so every round that has ended has its own press and
\* release: the first round ends with one release read, and select_pair()
\* returns only after two reads of a release, each after reads of a press.
C29_OnePressOneSelection ==
    /\ ls.at = "chosen"
          => (~sw_pressed(ls.last_read) /\ ls.releases >= ls.round)
    /\ ls.at = "returned"
          => (~sw_pressed(ls.last_read) /\ ls.releases = 2)
    /\ (ls.at = "loop" /\ ls.round = 2) => ls.releases >= 1
    /\ (ls.at = "loop" /\ ls.round = 2 /\ ls.releases = 1
          /\ sw_pressed(ls.sw0) /\ ~ls.seen_released)
          => sw_pressed(ls.last_sw)

\* the pair is complete after exactly two presses, the second round having
\* found SW released at its first read
C29_Witness ==
    /\ ls.at = "returned"
    /\ ls.releases = 2
    /\ ~sw_pressed(ls.sw0)
    /\ ~sw_pressed(ls.last_read)
    /\ ls.first # ls.name_code

\* C30: an iteration of select_one()'s loop ends the round exactly when
\* last_sw is the released level, SW is sampled pressed and is pressed again
\* one debounce sleep later; a rotation, a change that is gone after the
\* sleep and a change to released leave the round in its loop, and nothing
\* but such an iteration ends a round.
C30_Step ==
    /\ (ls.at = "loop" /\ ls'.flip # ls.flip)
          => /\ ls'.at = "chosen"
                   <=> (ls.last_sw = HIGH /\ ls'.sw = LOW /\ ls'.sw2 = LOW)
             /\ ls'.at \in {"loop", "chosen"}
             /\ ls'.at = "loop"
                   => ls'.last_sw = IF ls'.sw # ls.last_sw /\ ls'.sw2 # ls.last_sw
                                    THEN ls'.sw2 ELSE ls.last_sw
    /\ (ls'.at = "chosen" /\ ls.at # "chosen")
          => (ls.at = "loop" /\ ls'.flip # ls.flip /\ ls'.round = ls.round)

C30_ReturnsOnlyOnDebouncedPress == [][C30_Step]_vars

\* an iteration has seen the knob turned and SW pressed, but SW released
\* again after the debounce sleep: the round goes on
C30_Witness ==
    /\ ls.at = "loop"
    /\ ls.rotated
    /\ ls.clk = ls.last_clk
    /\ ls.last_sw = HIGH
    /\ ls.sw = LOW
    /\ ls.sw2 = HIGH
    /\ ls.releases = 1

-----------------------------------------------------------------------------
(* lcd_display.py: LCDDisplay over its driver, whose calls may raise         *)

scroll_interval_s == 2

\* " " * n
RECURSIVE Spaces(_)
Spaces(n) == IF n <= 0 THEN "" ELSE " " \o Spaces(n - 1)

\* write_string(s) at column 0 of a row showing old
Overlay(old, s) ==
    IF Len(s) >= Len(old) THEN s ELSE s \o SubSeq(old, Len(s) + 1, Len(old))

DrvClear == [f |-> "clear", row |-> 0, s |-> ""]
DrvWrite(row, s) == [f |-> "write_string", row |-> row, s |-> s]

\* one call of the driver that completes
DrvApply(hw, op) ==
    IF op.f = "clear" THEN <<"", "">> ELSE [hw EXCEPT ![op.row] = Overlay(@, op.s)]

RECURSIVE DrvApplyAll(_, _, _)
DrvApplyAll(hw, ops, n) ==
    IF n = 0 THEN hw ELSE DrvApply(DrvApplyAll(hw, ops, n - 1), ops[n])

\* the driver calls of one try block; the fail_at-th of them raises (0: none
\* does) and the calls after it are not made
DrvRun(hw, ops, fail_at) ==
    LET raised == fail_at \in 1..Len(ops)
        done == IF raised THEN fail_at - 1 ELSE Len(ops)
    IN [hw |-> DrvApplyAll(hw, ops, done), raised |-> raised,
        calls |-> IF raised THEN done + 1 ELSE done]

\* the exception leaves the method
AfterTry_Propagates(raised) == raised

\* "except Exception as e: print(...)": nothing leaves the try statement
AfterTry(raised) == FALSE

Outcome(raised) == IF AfterTry(raised) THEN "raised" ELSE "returned"

\* __init__() and init(): self.lcd is None when the driver is missing or its
\* constructor raised
LCDDisplay_init(present) ==
    [present |-> present, cols |-> lcd_cols, rows |-> 2,
     scroll_text |-> "", scroll_offset |-> 0, scroll_last_time |-> 0,
     hw |-> <<"", "">>,
     op |-> None, outcome |-> "returned", failed |-> FALSE, calls |-> 0,
     failed_ops |-> {}]

LcdReturned(d, op) ==
    [d EXCEPT !.op = op, !.outcome = "returned", !.failed = FALSE, !.calls = 0]

LcdTried(d, op, r) ==
    [d EXCEPT !.op = op, !.hw = r.hw, !.outcome = Outcome(r.raised),
              !.failed = r.raised, !.calls = r.calls,
              !.failed_ops = IF r.raised THEN @ \cup {op} ELSE @]

LCDDisplay_write(d, line1, line2, fail_at) ==
    IF ~d.present THEN LcdReturned(d, "write")
    ELSE LET ops == <<DrvClear>>
                    \o (IF line1 # "" THEN <<DrvWrite(1, Prefix(line1, d.cols))>>
                        ELSE << >>)
                    \o (IF d.rows > 1 /\ line2 # ""
                        THEN <<DrvWrite(2, Prefix(line2, d.cols))>> ELSE << >>)
         IN LcdTried(d, "write", DrvRun(d.hw, ops, fail_at))

LCDDisplay_set_scroll_text(d, text, t) ==
    [LcdReturned(d, "set_scroll_text") EXCEPT
        !.scroll_text = IF text = None THEN "" ELSE text,
        !.scroll_offset = 0, !.scroll_last_time = t]

LCDDisplay_tick_scroll(d, t, recording, fail_at) ==
    IF \/ ~d.present
       \/ d.scroll_text = ""
       \/ recording
       \/ t - d.scroll_last_time < scroll_interval_s
    THEN LcdReturned(d, "tick_scroll")
    ELSE LET padded == d.scroll_text \o "   "
             offset == IF d.scroll_offset >= Len(padded) THEN 0
                       ELSE d.scroll_offset
             last == IF offset + d.cols <= Len(padded) THEN offset + d.cols
                     ELSE Len(padded)
             cut == SubSeq(padded, offset + 1, last)
             window == cut \o Spaces(d.cols - Len(cut))
             ops == <<DrvWrite(2, Spaces(d.cols)), DrvWrite(2, window)>>
         IN [LcdTried(d, "tick_scroll", DrvRun(d.hw, ops, fail_at)) EXCEPT
                !.scroll_last_time = t, !.scroll_offset = offset + 1]

Lines == {"", "Ready", "Hold A/B to talk, then release"}
ScrollTexts == {None, "", "a", "buongiorno a tutti voi"}

LcdInit ==
    /\ now = 0
    /\ btn = [p \in ButtonPins |-> DebouncedButton(LOW, now, TRUE, 0)]
    /\ btn_ret = [p \in ButtonPins |-> None]
    /\ obs = ObsInit(LOW)
    /\ lp = LongPressDetector(HIGH, now, FALSE, 0, 0)
    /\ lp_ret = FALSE
    /\ lpobs = LpObsInit
    /\ rec = AudioRecorder
    /\ procs = << >>
    /\ rec_pos = [at |-> None, since |-> NoTime]
    /\ rec_ret = NoTime
    /\ rec_log = RecLogInit
    /\ \E present \in BOOLEAN : lcd = LCDDisplay_init(present)
    /\ CtlIdleInit

LcdTick ==
    /\ Tick(MaxTime)
    /\ UNCHANGED <<btnVars, lpVars, recVars, lcd, ctlVars>>

LcdWrite ==
    /\ \E line1 \in Lines, line2 \in Lines, fail_at \in 0..3 :
          lcd' = LCDDisplay_write(lcd, line1, line2, fail_at)
    /\ UNCHANGED <<now, btnVars, lpVars, recVars, ctlVars>>

LcdSetScrollText ==
    /\ \E text \in ScrollTexts : lcd' = LCDDisplay_set_scroll_text(lcd, text, now)
    /\ UNCHANGED <<now, btnVars, lpVars, recVars, ctlVars>>

LcdTickScroll ==
    /\ \E recording \in BOOLEAN, fail_at \in 0..2 :
          lcd' = LCDDisplay_tick_scroll(lcd, now, recording, fail_at)
    /\ UNCHANGED <<now, btnVars, lpVars, recVars, ctlVars>>

LcdNext == LcdTick \/ LcdWrite \/ LcdSetScrollText \/ LcdTickScroll

SpecLcd == LcdInit /\ [][LcdNext]_vars

\* C31: every write() and tick_scroll() returns to its caller, also when a
\* call of the driver raised inside it, and leaves the recorder and the
\* language pair alone; without a display no operation calls the driver and
\* the display shows nothing.
C31_DisplayFailuresStayInside ==
    /\ lcd.outcome = "returned"
    /\ lcd.failed => lcd.present /\ lcd.calls >= 1
    /\ ~lcd.present => lcd.calls = 0 /\ lcd.hw = <<"", "">> /\ lcd.failed_ops = {}
    /\ rec = AudioRecorder /\ app = AppController /\ pc = "constructed"

\* a scroll step whose second driver call raised, after a write that failed too
C31_Witness ==
    /\ lcd.op = "tick_scroll" /\ lcd.failed /\ lcd.calls = 2
    /\ lcd.failed_ops = {"write", "tick_scroll"}
    /\ lcd.outcome = "returned"

-----------------------------------------------------------------------------
(* Polls that are far apart *)

\* C32: what the pin did between two polls leaves no trace: a poll that
\* samples the level sampled by the poll before it, that level being the
\* accepted one, returns None however long ago that poll was; and a poll
\* that is the first to see the sample change returns None when debounce_s
\* is positive, however long the time without polls before it, so that an
\* event is at least debounce_s later than the poll that first saw the level.
C32_NothingBufferedAcrossGap ==
    obs.polls = 1 =>
        /\ (~obs.changed /\ obs.raw = obs.accepted)
               => (obs.ev = None /\ btn_ret["A"] = None
                   /\ btn["A"].stable = obs.accepted)
        /\ (obs.changed /\ btn["A"].debounce_s > 0)
               => (obs.ev = None /\ btn["A"].stable = obs.accepted)
        /\ obs.ev # None
               => /\ obs.change_t # NoTime
                  /\ obs.t >= obs.change_t + btn["A"].debounce_s
                  /\ (btn["A"].debounce_s > 0 => obs.gap <= obs.t - obs.change_t)

\* a change first seen by a poll that came more than debounce_s after the
\* poll before it, and not reported by it
C32_Witness ==
    /\ obs.polls = 1
    /\ obs.changed
    /\ obs.raw # obs.accepted
    /\ btn["A"].debounce_s = MaxDebounce
    /\ obs.gap > btn["A"].debounce_s
    /\ obs.ev = None
    /\ obs.last_ev = "released"

-----------------------------------------------------------------------------
(* Recordings and the pipeline runs they end in *)

\* the capture processes that have been waited for
Reaped(ps) == {i \in 1..Len(ps) : ps[i].reaped}

\* C33: pipeline.process() has been called as often as a recording has been
\* completed, so never for a "released" found with no recording in progress;
\* and while a call is in progress the session is Idle, the last recorder
\* call was the stop() of a recording and it has returned, and the capture
\* process it stopped has been signalled and waited for.
C33_PipelineOncePerCompletedRecording ==
    /\ ctl_obs.pipes = Cardinality(Reaped(procs))
    /\ pipe_call # NoCall
          => /\ pc \in {"pipe_a", "pipe_b", "pipe_f"}
             /\ ~is_recording(rec)
             /\ rec_pos.at = None
             /\ rec_log.op = "stop" /\ rec_log.was
             /\ rec_log.path \in {"graceful", "forced"}
             /\ rec_log.pid \in Reaped(procs)
             /\ procs[rec_log.pid].sigint >= 1
             /\ procs[rec_log.pid].state = "exited"
    /\ pc \in {"pipe_a", "pipe_b", "pipe_f"} => pipe_call # NoCall

\* button A's "released" has found no recording: button B's release had
\* ended it, and no second pipeline run was made
C33_Witness ==
    /\ pc = "poll_b"
    /\ btn_ret["A"] = "released"
    /\ btn_ret["B"] = "released"
    /\ ctl_obs.pipes = 1
    /\ Len(procs) = 1
    /\ ~is_recording(rec)
    /\ pipe_call = NoCall

\* C34: when an iteration of run() begins, and at each of its polls and at
\* its display tick, a recording in progress has a button whose debounced
\* level is pressed: no recording goes on with both buttons released.
C34_RecordingHasHeldButton ==
    (pc \in {"poll_a", "poll_b", "poll_lp", "tick"} /\ is_recording(rec))
        => \E p \in ButtonPins :
              is_pressed_level(btn[p].active_high, btn[p].stable)

\* a second recording is in progress at the start of an iteration, with
\* button B alone held
C34_Witness ==
    /\ pc = "poll_a"
    /\ is_recording(rec)
    /\ Len(procs) = 2
    /\ btn["B"].stable = HIGH
    /\ btn["A"].stable = LOW
    /\ now = CtlMaxTime

\* C35: a recording in progress at a poll has been begun by a button that
\* is still held; the wait of stop() and the pipeline run in a button's
\* handler follow that button's "released" and get that button's pair,
\* whichever button began the recording.
C35_StoppedByTheButtonReleased ==
    /\ (pc \in {"poll_a", "poll_b", "poll_lp", "tick"} /\ is_recording(rec))
          => /\ ctl_obs.starter \in {"a", "b"}
             /\ btn[ButtonOf(ctl_obs.starter)].stable = HIGH
    /\ \A x \in {"a", "b"} :
          /\ pc \in {"stop_" \o x, "pipe_" \o x}
                => /\ btn_ret[ButtonOf(x)] = "released"
                   /\ ctl_obs.starter \in {"a", "b"}
          /\ pc = "pipe_" \o x
                => /\ pipe_call.src = (IF x = "a" THEN app.lang_a_to_b[1]
                                       ELSE app.lang_b_to_a[1])
                   /\ pipe_call.tgt = (IF x = "a" THEN app.lang_a_to_b[2]
                                       ELSE app.lang_b_to_a[2])

\* a poll that reports "released" enters the wait of stop() when a recording
\* is in progress, whichever button began it, and without one goes on to
\* the next poll with the recorder, the display and the pipeline untouched
C35_ReleaseStep ==
    \A x \in {"a", "b"} :
        (/\ pc = "poll_" \o x
         /\ btn'[ButtonOf(x)].stable # btn[ButtonOf(x)].stable
         /\ btn_ret'[ButtonOf(x)] = "released")
            => IF is_recording(rec)
               THEN pc' = "stop_" \o x /\ rec_pos'.at = "wait"
               ELSE /\ pc' = (IF x = "a" THEN "poll_b" ELSE "poll_lp")
                    /\ rec' = rec /\ procs' = procs /\ rec_pos' = rec_pos
                    /\ lcd' = lcd
                    /\ pipe_call' = pipe_call
                    /\ ctl_obs'.pipes = ctl_obs.pipes

C35_FirstReleaseEndsRecording ==
    [](C35_StoppedByTheButtonReleased) /\ [][C35_ReleaseStep]_vars

\* the pipeline runs with button B's pair for a recording that button A
\* began, button A still being held
C35_Witness ==
    /\ pc = "pipe_b"
    /\ ctl_obs.starter = "a"
    /\ btn["A"].stable = HIGH
    /\ app.lang_b_to_a # app.lang_a_to_b
    /\ pipe_call.src = app.lang_b_to_a[1]
    /\ pipe_call.tgt = app.lang_b_to_a[2]

-----------------------------------------------------------------------------
(* A DebouncedButton and a LongPressDetector on one pin: constructed at     *)
(* the same time with the same window and polarity, and polled together    *)

EqInit ==
    /\ now = 0
    /\ \E initial \in Levels, ah \in BOOLEAN, d \in 0..MaxDebounce,
          l \in 0..MaxLongPress :
          /\ btn = [p \in ButtonPins |-> DebouncedButton(initial, now, ah, d)]
          /\ lp = LongPressDetector(initial, now, ah, d, l)
    /\ btn_ret = [p \in ButtonPins |-> None]
    /\ obs = ObsInit(LOW)
    /\ lp_ret = FALSE
    /\ lpobs = LpObsInit
    /\ RecIdleInit
    /\ CtlIdleInit

EqTick ==
    /\ Tick(MaxTime)
    /\ UNCHANGED <<btnVars, lpVars, recVars, lcd, ctlVars>>

\* both are polled at the same time and read the same level
EqPoll ==
    \E raw \in Levels, enabled \in BOOLEAN :
        LET b == DebouncedButton_poll(btn["A"], now, raw)
            r == LongPressDetector_poll(lp, now, raw, enabled)
        IN
        /\ btn' = [btn EXCEPT !["A"] = b.b]
        /\ btn_ret' = [btn_ret EXCEPT !["A"] = b.ret]
        /\ lp' = r.d
        /\ lp_ret' = r.ret
        /\ lpobs' = LpObsPoll(lpobs, now, enabled, lp, r.d, r.ret)
        /\ UNCHANGED <<now, obs, recVars, lcd, ctlVars>>

EqNext == EqTick \/ EqPoll

SpecEq == EqInit /\ [][EqNext]_vars

\* the detector's debounce state is the button's
C36_SameDebounceState ==
    /\ lp.stable = btn["A"].stable
    /\ lp.raw_last = btn["A"].raw_last
    /\ lp.raw_changed_t = btn["A"].raw_changed_t

\* a poll of both changes the detector's stable level exactly when the
\* button reports an event, "pressed" for a change to the pressed level and
\* "released" for a change from it
C36_PollStep ==
    now' = now =>
        /\ (lp'.stable # lp.stable) <=> (btn_ret'["A"] \in {"pressed", "released"})
        /\ (lp'.stable # lp.stable)
              => /\ lp'.stable = btn'["A"].stable
                 /\ (btn_ret'["A"] = "pressed")
                       <=> (lp'.stable = (IF lp.active_high THEN HIGH ELSE LOW))

\* C36: polled together on the same samples, with the same window and
\* polarity, the detector's stable level changes at exactly the polls where
\* the button reports an event, and to the level the button accepts,
\* whether the detector is polled enabled or disabled.
C36_DetectorDebouncesLikeButton ==
    [](C36_SameDebounceState) /\ [][C36_PollStep]_vars

\* a release accepted by a disabled poll, of a hold for which the detector
\* had fired
C36_Witness ==
    /\ lpobs.polls = 1
    /\ ~lpobs.enabled
    /\ lpobs.release_t = lpobs.t
    /\ btn_ret["A"] = "released"
    /\ lp.stable = btn["A"].stable
    /\ lp.debounce_s = MaxDebounce
    /\ lpobs.fires = 1

-----------------------------------------------------------------------------
(* Holds the detector has seen while disabled *)

\* C39: a poll returns True only in a hold into which no disabled poll has
\* fallen: not when a disabled poll took the debounced level to pressed,
\* which leaves the whole hold without a True, and not when a disabled poll
\* came later in the hold, however long the hold lasts with the detector
\* enabled again; the next True needs a new debounced press.
C39_DisabledHoldNeverFires ==
    /\ lp_ret => (~lpobs.cut /\ ~lpobs.edge_off
                    /\ lpobs.pressed /\ lpobs.press_t # NoTime)
    /\ lpobs.edge_off => (lpobs.cut /\ lpobs.fires = 0)
    /\ lpobs.cut => (~lp_ret /\ lpobs.fires <= 1)

\* a hold taken up by a disabled poll, polled enabled since for long_press_s
\* and more without a True
C39_Witness ==
    /\ lpobs.edge_off
    /\ lpobs.enabled
    /\ lpobs.pressed
    /\ lpobs.hold_t # NoTime
    /\ lp.long_press_s = 1
    /\ lpobs.t - lpobs.hold_t >= 2 * lp.long_press_s
    /\ lpobs.fires = 0
    /\ ~lp_ret

-----------------------------------------------------------------------------
(* The encoder switch, read by run()'s long-press detector and, inside      *)
(* reselect_languages(), by the selector: the detector is polled only       *)
(* between the selection rounds, the selector reads only inside them        *)

ReselMaxTime == 5

\* what an observer of the re-selections can tell
ReselObsInit ==
    [ started     |-> 0,        \* reselect_languages() calls so far (at most 2)
      fired_t     |-> NoTime,   \* in a re-selection: time of the poll that began it
      press_t     |-> NoTime,   \* the poll of run() that last took the level to
                                \* pressed, while the level is pressed
      new_release |-> FALSE,    \* since the last re-selection returned, a poll
                                \* of run() has taken the level to released
      new_press   |-> FALSE ]   \* ... and a poll of run() has taken it to pressed

\* a poll of run() as the observer sees it
ReselObsPoll(o, t, before, after, ret) ==
    LET was == is_pressed_level(before.active_high, before.stable)
        is  == is_pressed_level(after.active_high, after.stable)
    IN [o EXCEPT !.started = IF ret /\ @ < 2 THEN @ + 1 ELSE @,
                 !.fired_t = IF ret THEN t ELSE NoTime,
                 !.press_t = IF ~is THEN NoTime ELSE IF ~was THEN t ELSE @,
                 !.new_release = @ \/ (was /\ ~is),
                 !.new_press = @ \/ (is /\ ~was)]

ReselInit ==
    /\ now = 0
    /\ btn = [p \in ButtonPins |-> DebouncedButton(LOW, now, TRUE, DEBOUNCE_S)]
    /\ btn_ret = [p \in ButtonPins |-> None]
    /\ obs = ObsInit(LOW)
    /\ \E initial \in Levels :
          lp = LongPressDetector(initial, now, FALSE, DEBOUNCE_S, ENC_LONG_PRESS_S)
    /\ lp_ret = FALSE
    /\ lpobs = LpObsInit
    /\ RecIdleInit
    /\ app = select_pair_return(LANG_CHOICES[1], LANG_CHOICES[2])
    /\ pc = "poll_lp"
    /\ sel = None
    /\ pipe_call = NoCall
    /\ ctl_obs = ReselObsInit
    /\ cleanup_log = << >>
    /\ pl = TranslationPipeline
    /\ ls = LanguageSelector

\* the clock.  The selector's rounds do not read it (the 0.5 s of the settle
\* loop apart, whose outcome is drawn), so the time a re-selection takes is
\* counted when select_pair() has returned
ReselTick ==
    /\ ls.at \in {"idle", "returned"}
    /\ Tick(ReselMaxTime)
    /\ UNCHANGED <<btnVars, lpVars, recVars, lcd, ctlVars>>

\* run() polls the detector, enabled as no recording is in progress; on
\* True reselect_languages() writes its notice and calls
\* select_pair(self.lang_choices, initial_index=0), which enters the first
\* select_one()
ReselPollLongPress ==
    /\ ls.at = "idle"
    /\ \E raw \in Levels :
          LET enabled == LpEnabledArg(rec)
              r == LongPressDetector_poll(lp, now, raw, enabled)
          IN
          /\ lp' = r.d
          /\ lp_ret' = r.ret
          /\ ctl_obs' = ReselObsPoll(ctl_obs, now, lp, r.d, r.ret)
          /\ IF r.ret
             THEN /\ \E last_clk \in Levels, sw0 \in Levels, settled \in BOOLEAN,
                        last_sw \in Levels :
                        /\ settled => sw_pressed(sw0)
                        /\ ls' = last_sw_after_settle(
                                    settle(select_one_begin(
                                              [LanguageSelector EXCEPT
                                                  !.options = LANG_CHOICES,
                                                  !.initial_index = 0],
                                              1, last_clk, last_sw),
                                           sw0, settled),
                                    last_sw)
                  /\ lcd' = select_one_begin_lcd(
                               lcd_write(lcd, "Change langs", "Rotate + press"), ls')
                  /\ pc' = "reselect_1"
             ELSE UNCHANGED <<ls, lcd, pc>>
    /\ UNCHANGED <<now, btnVars, lpobs, recVars, app, sel, pipe_call, cleanup_log, pl>>

\* the detector forgets that it has fired when the re-selection returns
ReselectLanguagesReturns_RearmsDetector ==
    /\ ls.at = "returned"
    /\ app' = ls.ret
    /\ lcd' = lcd_write(lcd, "Ready", "Hold button")
    /\ ls' = LanguageSelector
    /\ ctl_obs' = [ctl_obs EXCEPT !.fired_t = NoTime, !.new_release = FALSE,
                                  !.new_press = FALSE]
    /\ pc' = "poll_lp"
    /\ lp' = [lp EXCEPT !.fired = FALSE]
    /\ UNCHANGED <<now, btn, btn_ret, obs, lp_ret, lpobs, recVars, sel, pipe_call,
                   cleanup_log, pl>>

\* select_pair() has returned: reselect_languages() assigns the pairs and
\* the names, shows "Ready" and returns to the loop of run()
ReselectLanguagesReturns ==
    /\ ls.at = "returned"
    /\ app' = ls.ret
    /\ lcd' = lcd_write(lcd, "Ready", "Hold button")
    /\ ls' = LanguageSelector
    /\ ctl_obs' = [ctl_obs EXCEPT !.fired_t = NoTime, !.new_release = FALSE,
                                  !.new_press = FALSE]
    /\ pc' = "poll_lp"
    /\ UNCHANGED <<now, btnVars, lpVars, recVars, sel, pipe_call, cleanup_log, pl>>

ReselNext ==
    \/ ReselTick
    \/ ReselPollLongPress
    \/ SelectOneIteration
    \/ SelectPairContinues
    \/ ReselectLanguagesReturns

SpecResel == ReselInit /\ [][ReselNext]_vars

\* C37: the first round of a re-selection ends only when the selector has
\* read the switch released since the round began and then pressed, at the
\* sample and again after the debounce sleep: the hold that made the
\* detector fire does not end it, settled in time or not.
C37_LongPressDoesNotSelect ==
    (pc = "reselect_1" /\ ls.round = 1 /\ ls.at = "chosen")
        => /\ ls.seen_released
           /\ ls.sw = LOW /\ ls.sw2 = LOW
           /\ ls.releases >= 1
           /\ lp_ret

\* the hold lasted beyond the settle loop, and the first round has ended
C37_Witness ==
    /\ pc = "reselect_1"
    /\ ls.round = 1
    /\ ls.at = "chosen"
    /\ lp_ret
    /\ ls.sw0 = LOW
    /\ ~ls.settled
    /\ ls.releases = 2

\* C38: a second re-selection begins only at a poll of run() that comes at
\* least long_press_s after a poll of run() took the debounced level to
\* pressed, that poll being later than the return of the first
\* re-selection and later than a poll of run() that took the level to
\* released: what the switch did during the round is not counted, and the
\* hold that began the first re-selection does not begin a second one.
C38_SecondReselectionNeedsNewHold ==
    (ctl_obs.started = 2 /\ ls.at # "idle")
        => /\ ctl_obs.new_release
           /\ ctl_obs.new_press
           /\ ctl_obs.press_t # NoTime
           /\ ctl_obs.fired_t # NoTime
           /\ ctl_obs.fired_t - ctl_obs.press_t >= ENC_LONG_PRESS_S

\* the second re-selection has begun
C38_Witness ==
    /\ ctl_obs.started = 2
    /\ pc = "reselect_1"
    /\ ls.round = 1
    /\ lp_ret
    /\ ctl_obs.new_press
    /\ ctl_obs.fired_t = ReselMaxTime

=========================================================================
